---------------------------- MODULE Spec2Model ----------------------------
(***************************************************************************)
(* A model of couchbase-driver (src/unnamed/part_000): the Driver facade   *)
(* over a Couchbase bucket.  The specifications of the module:             *)
(*   Spec       the atomic read-transform-write engine, several concurrent *)
(*              atomic() calls on one key of a store with CAS and locks;   *)
(*   SpecLegacy Spec for the earlier implementation (src/lib/index.js);     *)
(*   SpecLive   Spec on a store that answers every operation in the end;   *)
(*   SpecRetry  one atomic() call against writes of other processes, for   *)
(*              every atomicRetryTimes of the driver;                      *)
(*   SpecGet    the get() handler (single key and batch reconciliation);   *)
(*   SpecFacade insert, upsert, remove and getAndLock called on their own; *)
(*   SpecFault  SpecRetry and SpecFacade with a store that may fail any    *)
(*              operation of an atomic() call;                             *)
(*   SpecClassify  isKeyNotFound and isTemporaryError on errors of every   *)
(*              shape;                                                     *)
(*   SpecCreate  Driver.create and the functions it proxies;               *)
(*   SpecOptions  the retry options of a call, for every layering of the   *)
(*              options of the call and of the driver.                     *)
(***************************************************************************)
EXTENDS Integers, Sequences, FiniteSets, TLC

(***************************************************************************)
(* Bounds of the model.                                                    *)
(***************************************************************************)
NCalls == 2          \* concurrent atomic() calls on the key
MaxExternal == 2     \* writes to the key made by other processes
MaxRetryOpt == 2     \* largest atomicRetryTimes given to the constructor
MaxKeys == 2         \* longest key array handed to a batch get
MaxOps == 2          \* facade operations called one after the other
MaxProto == 3        \* properties of the bucket's prototype

(***************************************************************************)
(* Program constants.                                                      *)
(***************************************************************************)
DefaultAtomicRetryTimes == 5
DefaultTempRetryTimes == 5
DefaultTempRetryInterval == 50
DefaultAtomicRetryInterval == 0
KeyNotFoundCode == 13
TemporaryErrorCode == 11

Calls == 1..NCalls

(***************************************************************************)
(* OPERATIONS enum.                                                        *)
(***************************************************************************)
UPSERT == "upsert"
REMOVE == "remove"
NOOP == "noop"

(***************************************************************************)
(* JavaScript values, as far as the driver looks at them: it only tests    *)
(* truthiness and hands values on.  An object (a document body) carries    *)
(* the array doc.keys of the test transform; a number carries itself.      *)
(***************************************************************************)
Undefined == [kind |-> "undefined", n |-> 0, keys |-> <<>>]
Obj(ks) == [kind |-> "object", n |-> 0, keys |-> ks]
Num(i) == [kind |-> "number", n |-> i, keys |-> <<>>]

Truthy(v) ==
  CASE v.kind = "object" -> TRUE
    [] v.kind = "number" -> v.n # 0
    [] v.kind = "string" -> v.n # 0
    [] v.kind = "boolean" -> v.n = 1
    [] OTHER -> FALSE

(***************************************************************************)
(* Errors, as the callbacks receive them.  kind is the typeof of the value *)
(* (with null and undefined apart); an object carries a code (absent, a    *)
(* number, or a string spelling a number) and a message (a sequence of     *)
(* words, empty when the error has none).  The null error is NoErr.        *)
(***************************************************************************)
NoCode == [t |-> "none", n |-> 0]
NumCode(n) == [t |-> "number", n |-> n]
StrCode(n) == [t |-> "string", n |-> n]
Err(code, msg) == [kind |-> "object", code |-> code, msg |-> msg]

NoErr == [kind |-> "null", code |-> NoCode, msg |-> <<>>]
ErrKeyNotFound == Err(NumCode(KeyNotFoundCode),
                      <<"The", "key", "does", "not", "exist", "on", "the", "server">>)
ErrKeyExists == Err(NumCode(12),
                    <<"The", "key", "already", "exists", "in", "the", "server">>)
ErrTemporary == Err(NumCode(TemporaryErrorCode),
                    <<"Temporary", "failure", "received", "from", "server">>)
ErrOther == Err(NumCode(23), <<"Client-Side", "timeout", "exceeded">>)
\* a temporary failure known by its message only
ErrBusy == Err(NoCode, <<"Temporary", "failure", "Try", "again", "later">>)

\* message.indexOf(words) >= 0
Contains(msg, words) ==
  \E i \in 0..(Len(msg) - Len(words)) :
    \A j \in 1..Len(words) : msg[i + j] = words[j]

\* `if (err)`: null, undefined and the empty string are falsy
IsSet(err) == err.kind \notin {"null", "undefined"}
\* `err.code &&`: no code and the number 0 are falsy, a string of digits is not
HasCode(code) == code.t = "string" \/ (code.t = "number" /\ code.n # 0)
\* code.toString(), as the number it spells
CodeToString(code) == code.n

isObject(value) == value.kind \in {"object", "function"}

\* faulty variant: no error is classified as key-not-found
isKeyNotFoundNever(err) == FALSE

\* faulty variant: only the code of the error is looked at
isKeyNotFoundByCode(err) ==
  /\ IsSet(err) /\ isObject(err)
  /\ HasCode(err.code) /\ CodeToString(err.code) = 13

isKeyNotFound(err) ==
  /\ IsSet(err) /\ isObject(err)
  /\ \/ HasCode(err.code) /\ err.code = NumCode(KeyNotFoundCode)
     \/ err.msg # <<>> /\ err.msg = <<"key", "not", "found">>
     \/ err.msg # <<>> /\ Contains(err.msg, <<"key", "does", "not", "exist">>)
     \/ err.msg # <<>> /\ Contains(err.msg, <<"key", "not", "found">>)
     \/ HasCode(err.code) /\ CodeToString(err.code) = 13

\* faulty variant: the code alone is compared, and only as a number
isTemporaryErrorStrict(err) ==
  /\ IsSet(err) /\ isObject(err)
  /\ HasCode(err.code) /\ err.code = NumCode(TemporaryErrorCode)

isTemporaryError(err) ==
  /\ IsSet(err) /\ isObject(err)
  /\ \/ HasCode(err.code) /\ err.code = NumCode(TemporaryErrorCode)
     \/ err.msg # <<>> /\ Contains(err.msg, <<"Temporary", "failure">>)
     \/ HasCode(err.code) /\ CodeToString(err.code) = 11


(***************************************************************************)
(* The store (the Couchbase bucket), for the one key the calls work on.    *)
(* cas is the last CAS token issued for the key (it only grows, so a token *)
(* is never reused); a locked document carries the lock's token as cas and *)
(* shows a masked token (0) to a plain get.  Every store operation is one  *)
(* step: it yields the new store, the error and the result handed to the   *)
(* callback.  A result is a handle {value, cas}; found = FALSE stands for  *)
(* an undefined result.                                                    *)
(***************************************************************************)
NoDoc == [found |-> FALSE, value |-> Undefined, cas |-> 0]
Handle(v, c) == [found |-> TRUE, value |-> v, cas |-> c]
\* the options of a store write: the cas, and the expiry as the one option a
\* caller's saveOptions carries
NoOpts == [hasCas |-> FALSE, cas |-> 0, expiry |-> FALSE]
CasOpts(c) == [hasCas |-> TRUE, cas |-> c, expiry |-> FALSE]
Reply(s, e, r) == [s |-> s, err |-> e, res |-> r]

Stored(s) == IF s.exists THEN s.value ELSE Undefined
CasOk(s, o) == o.hasCas /\ o.cas = s.cas
Written(s, v) == [exists |-> TRUE, value |-> v, cas |-> s.cas + 1, locked |-> FALSE]
Deleted(s) == [exists |-> FALSE, value |-> Undefined, cas |-> s.cas + 1, locked |-> FALSE]

BucketGet(s) ==
  IF ~s.exists THEN Reply(s, ErrKeyNotFound, NoDoc)
  ELSE Reply(s, NoErr, Handle(s.value, IF s.locked THEN 0 ELSE s.cas))

BucketGetAndLock(s) ==
  IF ~s.exists THEN Reply(s, ErrKeyNotFound, NoDoc)
  ELSE IF s.locked THEN Reply(s, ErrTemporary, NoDoc)
  ELSE Reply([s EXCEPT !.cas = s.cas + 1, !.locked = TRUE], NoErr,
             Handle(s.value, s.cas + 1))

BucketInsert(s, v, o) ==
  IF s.exists THEN Reply(s, ErrKeyExists, NoDoc)
  ELSE Reply(Written(s, v), NoErr, Handle(Undefined, s.cas + 1))

BucketUpsert(s, v, o) ==
  IF ~s.exists
  THEN IF o.hasCas THEN Reply(s, ErrKeyNotFound, NoDoc)
       ELSE Reply(Written(s, v), NoErr, Handle(Undefined, s.cas + 1))
  ELSE IF CasOk(s, o) \/ (~o.hasCas /\ ~s.locked)
       THEN Reply(Written(s, v), NoErr, Handle(Undefined, s.cas + 1))
       ELSE Reply(s, ErrKeyExists, NoDoc)

BucketRemove(s, o) ==
  IF ~s.exists THEN Reply(s, ErrKeyNotFound, NoDoc)
  ELSE IF CasOk(s, o) \/ (~o.hasCas /\ ~s.locked)
       THEN Reply(Deleted(s), NoErr, Handle(Undefined, s.cas + 1))
       ELSE Reply(s, ErrKeyExists, NoDoc)

\* withCas: whether the unlock answer carries a token (the driver reads doc2.cas)
BucketUnlock(s, cas, withCas) ==
  IF ~s.exists THEN Reply(s, ErrKeyNotFound, NoDoc)
  ELSE IF s.locked /\ cas = s.cas
       THEN Reply([s EXCEPT !.locked = FALSE], NoErr,
                  IF withCas THEN Handle(Undefined, s.cas) ELSE NoDoc)
       ELSE Reply(s, ErrTemporary, NoDoc)

(***************************************************************************)
(* Driver configuration: the constructor fills the options it is given     *)
(* from defaultOptions.  An option that is not given is "unset" (a string  *)
(* for the booleans, 0 for the counts, -1 for the intervals).  saveOptions is "{}" or           *)
(* "{expiry}", the bag of one write option.                                *)
(***************************************************************************)
defaultOptions ==
  [tempRetryTimes |-> DefaultTempRetryTimes,
   tempRetryInterval |-> DefaultTempRetryInterval,
   retryTemporaryErrors |-> "false",
   atomicRetryTimes |-> DefaultAtomicRetryTimes,
   atomicRetryInterval |-> DefaultAtomicRetryInterval,
   atomicLock |-> "true",
   missing |-> "true", saveOptions |-> "{}"]

NoOptions ==
  [tempRetryTimes |-> 0, tempRetryInterval |-> -1, retryTemporaryErrors |-> "unset",
   atomicRetryTimes |-> 0, atomicRetryInterval |-> -1, atomicLock |-> "unset",
   missing |-> "unset", saveOptions |-> "unset"]

\* lodash.defaults(options, source): the fields options leaves undefined are
\* filled from source.  The object it returns is options itself, so what the
\* code reads from `options` after the call is read from this result.
NumericOptions == {"tempRetryTimes", "atomicRetryTimes"}
IntervalOptions == {"tempRetryInterval", "atomicRetryInterval"}
IsUnset(f, v) ==
  IF f \in NumericOptions THEN v = 0
  ELSE IF f \in IntervalOptions THEN v = -1
  ELSE v = "unset"
defaults(options, source) ==
  [f \in DOMAIN options |-> IF IsUnset(f, options[f]) THEN source[f] ELSE options[f]]

Constructor(options) == defaults(options, defaultOptions)


(***************************************************************************)
(* Transforms handed to atomic().  "append" is the transform of the        *)
(* parallel-requests test (it pushes the caller's marker onto doc.keys);   *)
(* "noop" answers Noop with a value of its own; "prune" asks to remove a   *)
(* document that is missing or has no keys and appends otherwise; "remove" *)
(* always asks to remove; "clear" answers Upsert without a value.          *)
(***************************************************************************)
TransformKinds == {"append", "noop", "prune"}
AllTransformKinds == TransformKinds \cup {"remove", "clear"}
Directive(action, value) == [action |-> action, value |-> value]
NoopValue(data) == Obj(<<data, data>>)

tranform(docData, data) ==
  LET d == IF ~Truthy(docData) THEN Obj(<<>>) ELSE docData
  IN  Directive(UPSERT, Obj(Append(d.keys, data)))

Transform(kind, data, docData) ==
  CASE kind = "append" -> tranform(docData, data)
    [] kind = "noop" -> Directive(NOOP, NoopValue(data))
    [] kind = "prune" -> IF ~Truthy(docData) \/ docData.keys = <<>>
                         THEN Directive(REMOVE, Undefined)
                         ELSE tranform(docData, data)
    [] kind = "remove" -> Directive(REMOVE, Undefined)
    [] OTHER -> Directive(UPSERT, Undefined)

\* what a directive does to a stored value (Undefined: no document)
Effect(opr, before) ==
  IF opr.action = NOOP THEN before
  ELSE IF opr.action = UPSERT /\ Truthy(opr.value) THEN opr.value
  ELSE Undefined

(***************************************************************************)
(* State.                                                                  *)
(*   store     the key's document in the bucket                            *)
(*   initial   the store before the first call                             *)
(*   config    this.config of the driver                                   *)
(*   call[c]   the atomic() call c: where it is suspended (pc names the    *)
(*             store operation in flight), its arguments and the locals    *)
(*             of the running attempt; nfault (modulo 2), fault1 and fault *)
(*             tell of the operations the store failed (SpecFault): how    *)
(*             many, the first error and the latest error                  *)
(*   lost      whether some write of an atomic call took effect that was   *)
(*             not its transform applied to the value stored just before   *)
(*   extWrites number of writes by other processes so far                  *)
(*   get       the get() call of SpecGet                                   *)
(*   op        the facade operation (insert, upsert, remove, getAndLock)   *)
(*             called on its own in SpecFacade                             *)
(***************************************************************************)
VARIABLES store, initial, config, call, lost, extWrites, get, op, cls, proxy, ropts

vars == <<store, initial, config, call, lost, extWrites, get, op, cls, proxy, ropts>>

IdleCall ==
  [pc |-> "idle", tr |-> "noop", options |-> NoOptions, passed |-> FALSE,
   lock |-> FALSE, times |-> 0, attempt |-> 0, tries |-> 0, ntransform |-> 0,
   nrejected |-> 0, neffect |-> 0,
   doc |-> NoDoc, opr |-> Directive(NOOP, Undefined), opts |-> NoOpts,
   called |-> 0, err |-> NoErr, val |-> Undefined, saveOptions |-> "{}",
   legacy |-> FALSE,
   nfault |-> 0, fault1 |-> NoErr, fault |-> NoErr]

\* the value a store result shows to the caller
ResultValue(res) ==
  IF res.found THEN [kind |-> "result", n |-> res.cas, keys |-> <<>>] ELSE Undefined

\* bookkeeping of a write of call record cr answered with r
Counted(cr, r) ==
  IF r.err = NoErr THEN [cr EXCEPT !.neffect = @ + 1]
  ELSE IF isKeyNotFound(r.err) THEN cr
  ELSE [cr EXCEPT !.nrejected = @ + 1]

\* the write that took effect is not the transform of the value it replaced
Lost(cr, c, s, r) ==
  r.err = NoErr /\ Stored(r.s) # Effect(Transform(cr.tr, c, Stored(s)), Stored(s))

(***************************************************************************)
(* atomic(): option handling and the retry loop (async.retry).             *)
(***************************************************************************)
\* atomic: if (options.atomicLock), on the options of the call itself
UsesLock(options) == options.atomicLock = "true"

\* ropts.times = defaults(options, this.config).atomicRetryTimes
RetryTimes(options, cfg) == defaults(options, cfg).atomicRetryTimes

\* faulty variant: tempRetryTimes whatever retryTemporaryErrors says
FacadeTimesAlways(cfg) == cfg.tempRetryTimes

\* times of the facade's own retry of temporary errors
FacadeTimes(cfg) ==
  IF cfg.retryTemporaryErrors = "true" THEN cfg.tempRetryTimes ELSE 1

ReadOp(cr) == IF cr.lock THEN "getAndLock" ELSE "get"

\* faulty variant: one attempt more than `times`
ExhaustedOneLate(attempt, times) == attempt > times

\* async.retry gives up once `times` attempts were made
Exhausted(attempt, times) == attempt >= times

\* the locals of an attempt (doc, opr, opts) end with it
Fresh(cr) ==
  [cr EXCEPT !.doc = NoDoc, !.opr = Directive(NOOP, Undefined), !.opts = NoOpts,
             !.tries = 0]

\* faulty variant: the error of the first failed store operation is kept
retryFirstError(cr, err, val) ==
  IF err = NoErr \/ Exhausted(cr.attempt, cr.times)
  THEN [Fresh(cr) EXCEPT !.pc = "done", !.called = @ + 1,
                         !.err = IF err # NoErr /\ cr.fault1 # NoErr THEN cr.fault1 ELSE err,
                         !.val = val]
  ELSE [Fresh(cr) EXCEPT !.pc = ReadOp(cr), !.attempt = @ + 1]

\* faulty variant: an error that is neither a conflict nor temporary ends
\* the call at once
retryFatal(cr, err, val) ==
  IF err = NoErr \/ Exhausted(cr.attempt, cr.times) \/ err = ErrOther
  THEN [Fresh(cr) EXCEPT !.pc = "done", !.called = @ + 1, !.err = err, !.val = val]
  ELSE [Fresh(cr) EXCEPT !.pc = ReadOp(cr), !.attempt = @ + 1]

\* faulty variant: the failed write is sent again as it is, nothing is read
retrySameStep(cr, err, val) ==
  IF err = NoErr \/ Exhausted(cr.attempt, cr.times)
  THEN [Fresh(cr) EXCEPT !.pc = "done", !.called = @ + 1, !.err = err, !.val = val]
  ELSE [cr EXCEPT !.attempt = @ + 1]

\* faulty variant: an attempt that succeeded is followed by another one
\* while attempts are left
retryUntilExhausted(cr, err, val) ==
  IF Exhausted(cr.attempt, cr.times)
  THEN [Fresh(cr) EXCEPT !.pc = "done", !.called = @ + 1, !.err = err, !.val = val]
  ELSE [Fresh(cr) EXCEPT !.pc = ReadOp(cr), !.attempt = @ + 1]

\* rfn(err, val): the end of one attempt
retry(cr, err, val) ==
  IF err = NoErr \/ Exhausted(cr.attempt, cr.times)
  THEN [Fresh(cr) EXCEPT !.pc = "done", !.called = @ + 1, !.err = err, !.val = val]
  ELSE [Fresh(cr) EXCEPT !.pc = ReadOp(cr), !.attempt = @ + 1]

\* the facade retries a store operation that failed with a temporary error
FacadeRetries(cr, cfg, err) ==
  isTemporaryError(err) /\ cr.tries + 1 < FacadeTimes(cfg)

\* faulty variant: an upsert also when no document was read
WriteOpAlwaysUpsert(doc) == "upsert"

\* faulty variant: the insert and the upsert exchanged
WriteOpSwapped(doc) == IF doc.found THEN "insert" ELSE "upsert"

\* the write issued for an Upsert directive with a value
WriteOp(doc) == IF doc.found THEN "upsert" ELSE "insert"

\* the same in the earlier implementation (lib/index.js): an upsert, whether
\* a document was read or not
WriteOpLegacy(doc) == "upsert"

\* the write of call record cr, by the implementation that serves it
Write(cr, doc) == IF cr.legacy THEN WriteOpLegacy(doc) ELSE WriteOp(doc)

\* the options built from the document that was read
ReadOpts(doc) == IF doc.found THEN CasOpts(doc.cas) ELSE NoOpts

Transformed(cr, c, doc) ==
  [cr EXCEPT !.doc = doc,
             !.opr = Transform(cr.tr, c, IF doc.found THEN doc.value ELSE Undefined),
             !.opts = ReadOpts(doc),
             !.ntransform = @ + 1,
             !.tries = 0]

\* Object.assign(opts, saveOptions)
Assign(opts, saveOptions) ==
  IF saveOptions = "{expiry}" THEN [opts EXCEPT !.expiry = TRUE] ELSE opts

\* faulty variant: a Noop directive is not recognised
IsNoopNever(opr) == FALSE

\* opr.action === OPERATIONS.NOOP
IsNoop(opr) == opr.action = NOOP

\* faulty variant: an Upsert directive is not recognised
IsUpsertNever(opr) == FALSE

\* opr.action === OPERATIONS.UPSERT && opr.value
IsUpsert(opr) == opr.action = UPSERT /\ Truthy(opr.value)

\* faulty variant: the error of getAndLock is not looked at, the attempt
\* goes on as if the key held no document
onGetAndLockAnyway(cr, c, err, doc) ==
  LET t == Transformed(cr, c, doc) IN
  IF IsNoop(t.opr) THEN retry(t, NoErr, t.opr.value)
  ELSE IF IsUpsert(t.opr) THEN [t EXCEPT !.pc = WriteOp(doc)]
  ELSE [t EXCEPT !.pc = "thrown"]

\* the callback of this.getAndLock in _atomicWithLock
onGetAndLock(cr, c, err, doc) ==
  IF err # NoErr THEN retry(cr, err, Undefined)
  ELSE LET t == [Transformed(cr, c, doc) EXCEPT
                   !.opts = Assign(@, cr.saveOptions)] IN
       IF IsNoop(t.opr)
       THEN IF ~doc.found THEN retry(t, err, t.opr.value)
            ELSE [t EXCEPT !.pc = "unlockNoop"]
       ELSE IF IsUpsert(t.opr)
       THEN [t EXCEPT !.pc = Write(cr, doc)]
       ELSE IF ~doc.found THEN [t EXCEPT !.pc = "thrown"]   \* doc.cas of undefined
            ELSE [t EXCEPT !.pc = "unlockRemove"]

\* faulty variant: the error of get is not looked at, the transform is
\* called as if the key held no document
onGetAnyway(cr, c, err, doc) ==
  LET t == Transformed(cr, c, doc) IN
  IF IsNoop(t.opr) THEN retry(t, NoErr, t.opr.value)
  ELSE IF IsUpsert(t.opr) THEN [t EXCEPT !.pc = WriteOp(doc), !.opts = NoOpts]
  ELSE [t EXCEPT !.pc = "remove"]

\* the callback of this.get in _atomicNoLock
onGet(cr, c, err, doc) ==
  IF err # NoErr THEN retry(cr, err, Undefined)
  ELSE LET t == Transformed(cr, c, doc) IN
       IF IsNoop(t.opr) THEN retry(t, NoErr, t.opr.value)
       ELSE IF IsUpsert(t.opr)
       THEN [t EXCEPT !.pc = Write(cr, doc),
                      !.opts = IF doc.found THEN t.opts ELSE NoOpts]
       ELSE [t EXCEPT !.pc = "remove"]

(***************************************************************************)
(* Actions of the atomic engine.  Each is one store operation being        *)
(* answered together with the callback code that runs on the answer, up to *)
(* the next store operation the call issues.                               *)
(***************************************************************************)
\* the ways a call gives its options: none, {atomicLock: true}, and more
CallOptions ==
  { [passed |-> FALSE, options |-> NoOptions],
    [passed |-> TRUE, options |-> [NoOptions EXCEPT !.atomicLock = "true"]] }
AllCallOptions ==
  CallOptions \cup
  { [passed |-> TRUE, options |-> NoOptions],
    [passed |-> TRUE, options |-> [NoOptions EXCEPT !.atomicLock = "false"]],
    [passed |-> TRUE, options |-> [NoOptions EXCEPT !.atomicLock = "true",
                                                    !.saveOptions = "{expiry}"]],
    [passed |-> TRUE, options |-> [NoOptions EXCEPT !.atomicLock = "false",
                                                    !.saveOptions = "{expiry}"]] }

\* The calls are interchangeable (the index of a call is only the marker its
\* transform appends), so the arguments are bound in index order and in
\* nondecreasing rank: every multiset of arguments is covered once.
KindRank(kind) ==
  CASE kind = "append" -> 0 [] kind = "noop" -> 1 [] kind = "prune" -> 2 [] OTHER -> 3
OptionsRank(o) == IF o.passed THEN 1 ELSE 0
Rank(kind, o) == 2 * KindRank(kind) + OptionsRank(o)
InOrder(c, kind, o) ==
  c > 1 => /\ call[c - 1].pc # "idle"
           /\ Rank(kind, o) >= Rank(call[c - 1].tr,
                                    [passed |-> call[c - 1].passed,
                                     options |-> call[c - 1].options])

\* atomic() and the prologue of _atomicWithLock/_atomicNoLock: the variant,
\* the retry options, and the first attempt's read is issued
Started(cr, kind, o, cfg) ==
  LET s == [cr EXCEPT !.tr = kind, !.options = o.options, !.passed = o.passed,
                      !.lock = UsesLock(o.options),
                      !.times = RetryTimes(o.options, cfg),
                      !.saveOptions = defaults(o.options, cfg).saveOptions,
                      !.attempt = 1]
  IN  [s EXCEPT !.pc = ReadOp(s)]

\* driver.atomic(key, transform[, options], fn)
Atomic(c) ==
  /\ call[c].pc = "idle"
  /\ \E kind \in TransformKinds, o \in CallOptions :
       /\ InOrder(c, kind, o)
       /\ call' = [call EXCEPT ![c] = Started(@, kind, o, config)]
  /\ UNCHANGED <<store, initial, config, lost, extWrites, get, op, cls, proxy, ropts>>

\* driver.atomic(key, transform[, options], fn) of the earlier implementation
\* (lib/index.js), whose _atomicWithLock does not read saveOptions
AtomicLegacy(c) ==
  /\ call[c].pc = "idle"
  /\ \E kind \in TransformKinds, o \in CallOptions :
       /\ InOrder(c, kind, o)
       /\ call' = [call EXCEPT ![c] = [Started(@, kind, o, config) EXCEPT
                                        !.legacy = TRUE, !.saveOptions = "{}"]]
  /\ UNCHANGED <<store, initial, config, lost, extWrites, get, op, cls, proxy, ropts>>

\* driver.atomic(key, transform[, options], fn), every kind of argument
AtomicAlone(c) ==
  /\ call[c].pc = "idle"
  /\ \E kind \in AllTransformKinds, o \in AllCallOptions :
       call' = [call EXCEPT ![c] = Started(@, kind, o, config)]
  /\ UNCHANGED <<store, initial, config, lost, extWrites, get, op, cls, proxy, ropts>>

\* getAndLock facade + bucket.getAndLock, then the attempt's callback
GetAndLockCb(c) ==
  /\ call[c].pc = "getAndLock"
  /\ LET r == BucketGetAndLock(store)
         err == IF isKeyNotFound(r.err) THEN NoErr ELSE r.err
     IN  /\ store' = r.s
         /\ call' = [call EXCEPT ![c] =
                       IF FacadeRetries(@, config, err)
                       THEN [@ EXCEPT !.tries = @ + 1]
                       ELSE onGetAndLock(@, c, err, r.res)]
  /\ UNCHANGED <<initial, config, lost, extWrites, get, op, cls, proxy, ropts>>

\* getDocument (single key) + bucket.get, then the attempt's callback
GetCb(c) ==
  /\ call[c].pc = "get"
  /\ LET r == BucketGet(store)
         err == IF isKeyNotFound(r.err) THEN NoErr ELSE r.err
     IN  /\ store' = r.s
         /\ call' = [call EXCEPT ![c] = onGet(@, c, err, r.res)]
  /\ UNCHANGED <<initial, config, lost, extWrites, get, op, cls, proxy, ropts>>

\* write('upsert') + bucket.upsert; its callback is rfn
UpsertCb(c) ==
  /\ call[c].pc = "upsert"
  /\ LET r == BucketUpsert(store, call[c].opr.value, call[c].opts)
     IN  /\ store' = r.s
         /\ lost' = (lost \/ Lost(call[c], c, store, r))
         /\ call' = [call EXCEPT ![c] =
                       IF FacadeRetries(@, config, r.err)
                       THEN [Counted(@, r) EXCEPT !.tries = @ + 1]
                       ELSE retry(Counted(@, r), r.err, ResultValue(r.res))]
  /\ UNCHANGED <<initial, config, extWrites, get, op, cls, proxy, ropts>>

\* write('insert') + bucket.insert; its callback is rfn
InsertCb(c) ==
  /\ call[c].pc = "insert"
  /\ LET r == BucketInsert(store, call[c].opr.value, call[c].opts)
     IN  /\ store' = r.s
         /\ lost' = (lost \/ Lost(call[c], c, store, r))
         /\ call' = [call EXCEPT ![c] =
                       IF FacadeRetries(@, config, r.err)
                       THEN [Counted(@, r) EXCEPT !.tries = @ + 1]
                       ELSE retry(Counted(@, r), r.err, ResultValue(r.res))]
  /\ UNCHANGED <<initial, config, extWrites, get, op, cls, proxy, ropts>>

\* remove facade + bucket.remove; its callback is rfn
RemoveCb(c) ==
  /\ call[c].pc = "remove"
  /\ LET r == BucketRemove(store, call[c].opts)
         err == IF isKeyNotFound(r.err) THEN NoErr ELSE r.err
     IN  /\ store' = r.s
         /\ lost' = (lost \/ Lost(call[c], c, store, r))
         /\ call' = [call EXCEPT ![c] = retry(Counted(@, r), err, ResultValue(r.res))]
  /\ UNCHANGED <<initial, config, extWrites, get, op, cls, proxy, ropts>>

\* bucket.unlock on the Noop path of _atomicWithLock
UnlockNoopCb(c) ==
  /\ call[c].pc = "unlockNoop"
  /\ LET r == BucketUnlock(store, call[c].doc.cas, FALSE)   \* the answer is not read
     IN  /\ store' = r.s
         /\ call' = [call EXCEPT ![c] = retry(@, r.err, @.opr.value)]
  /\ UNCHANGED <<initial, config, lost, extWrites, get, op, cls, proxy, ropts>>

\* bucket.unlock on the Remove path of _atomicWithLock
UnlockRemoveCb(c) ==
  /\ call[c].pc = "unlockRemove"
  /\ \E withCas \in BOOLEAN :
       LET r == BucketUnlock(store, call[c].doc.cas, withCas)
       IN  /\ store' = r.s
           /\ call' = [call EXCEPT ![c] =
                         IF r.err # NoErr THEN retry(@, r.err, Undefined)
                         ELSE [@ EXCEPT !.pc = "remove",
                                        !.opts = IF r.res.found THEN CasOpts(r.res.cas)
                                                 ELSE NoOpts]]
  /\ UNCHANGED <<initial, config, lost, extWrites, get, op, cls, proxy, ropts>>

\* the errors the store fails an operation of an atomic call with
AtomicFaults == {ErrTemporary, ErrOther}

\* the callback code of the store operation in flight, run on an error
Failed(cr, c, cfg, e) ==
  LET f == [cr EXCEPT !.nfault = (@ + 1) % 2, !.fault = e,
                      !.fault1 = IF @ = NoErr THEN e ELSE @] IN
  CASE cr.pc = "get" -> onGet(f, c, e, NoDoc)
    [] cr.pc = "getAndLock" ->
         IF FacadeRetries(cr, cfg, e) THEN [f EXCEPT !.tries = @ + 1]
         ELSE onGetAndLock(f, c, e, NoDoc)
    [] cr.pc \in {"upsert", "insert"} ->
         IF FacadeRetries(cr, cfg, e) THEN [f EXCEPT !.tries = @ + 1]
         ELSE retry(f, e, Undefined)
    [] cr.pc = "unlockNoop" -> retry(f, e, cr.opr.value)
    [] OTHER -> retry(f, e, Undefined)

\* the store fails the operation in flight of call c (a timeout, a temporary
\* failure): the document is as it was and the callback gets the error
StoreFault(c) ==
  /\ call[c].pc \in {"get", "getAndLock", "upsert", "insert", "remove",
                     "unlockNoop", "unlockRemove"}
  /\ \E e \in AtomicFaults :
       call' = [call EXCEPT ![c] = Failed(@, c, config, e)]
  /\ UNCHANGED <<store, initial, config, lost, extWrites, get, op, cls, proxy, ropts>>

\* another process rewrites the document (an upsert without CAS)
ExternalWrite ==
  /\ extWrites < MaxExternal
  /\ LET r == BucketUpsert(store, Obj(Append(Stored(store).keys, 0)), NoOpts)
     IN  /\ r.err = NoErr
         /\ store' = r.s
  /\ extWrites' = extWrites + 1
  /\ UNCHANGED <<initial, config, call, lost, get, op, cls, proxy, ropts>>


(***************************************************************************)
(* get(): getDocument.  The bucket of SpecGet holds some of GetKeys; a     *)
(* getMulti answer has one entry per requested key: {value, cas} of the    *)
(* stored document, or {error}.  entry.own = FALSE stands for an entry the *)
(* answer lacks (or a falsy one).                                          *)
(***************************************************************************)
GetKeys == {"k1", "k2"}
DocValues == {Obj(<<>>), Num(0), Num(1)}
Absent == [exists |-> FALSE, value |-> Undefined, cas |-> 0]
Present(v) == [exists |-> TRUE, value |-> v, cas |-> 1]
Buckets == [GetKeys -> {Absent} \cup {Present(v) : v \in DocValues}]
Faults == {"none", "error", "noentry"}

Entry(own, v, c, e) == [own |-> own, value |-> v, cas |-> c, error |-> e]

\* the entry of one key in a getMulti answer
MultiEntry(doc, fault) ==
  CASE fault = "noentry" -> Entry(FALSE, Undefined, 0, NoErr)
    [] fault = "error" -> Entry(TRUE, Undefined, 0, ErrTemporary)
    [] OTHER -> IF doc.exists THEN Entry(TRUE, doc.value, doc.cas, NoErr)
                ELSE Entry(TRUE, Undefined, 0, ErrKeyNotFound)

NoPartition == [results |-> <<>>, misses |-> <<>>, errors |-> <<>>]

\* the body of keys.forEach for one key k
Classify(acc, k, e) ==
  IF e.own
  THEN IF Truthy(e.value)
       THEN [acc EXCEPT !.results = Append(@, [value |-> e.value, cas |-> e.cas])]
       ELSE IF e.error # NoErr /\ isKeyNotFound(e.error)
       THEN [acc EXCEPT !.misses = Append(@, k)]
       ELSE IF e.error # NoErr
       THEN [acc EXCEPT !.errors = Append(@, <<e.error>>)]
       ELSE acc
  ELSE acc

\* faulty variant: the keys taken from the last to the first
RECURSIVE ReconcileBackwards(_, _, _)
ReconcileBackwards(keys, getRes, acc) ==
  IF keys = <<>> THEN acc
  ELSE Classify(ReconcileBackwards(Tail(keys), getRes, acc), Head(keys), getRes[Head(keys)])

RECURSIVE Reconcile(_, _, _)
Reconcile(keys, getRes, acc) ==
  IF keys = <<>> THEN acc
  ELSE Reconcile(Tail(keys), getRes, Classify(acc, Head(keys), getRes[Head(keys)]))

\* faulty variant: an empty collection is handed on as it is
ErrorsResultAsIs(errors) == [null |-> FALSE, list |-> errors]

\* if (errors.length === 0) errors = null
ErrorsResult(errors) == [null |-> errors = <<>>, list |-> errors]

\* faulty variant: the driver-wide setting alone decides
PassMissesDriverWide(cfg, options) == cfg.missing # "false"

\* whether the callback is handed the misses
PassMisses(cfg, options) ==
  IF cfg.missing = "false" THEN options.missing = "true"
  ELSE options.missing # "false"

\* getDocument: a callback in the place of options
GetOptions(passed, options) ==
  IF passed THEN options ELSE [NoOptions EXCEPT !.missing = "true"]

\* the promise a call without callback returns
Unsettled ==
  [state |-> "none", err |-> NoErr, errors |-> <<>>, res |-> NoDoc, results |-> <<>>,
   misses |-> <<>>]

\* faulty variant: the promise resolves to everything the callback was handed
pCallAllResults(cb) ==
  IF IsSet(cb.err) THEN [Unsettled EXCEPT !.state = "rejected", !.err = cb.err]
  ELSE IF ~cb.errors.null
  THEN [Unsettled EXCEPT !.state = "rejected", !.errors = cb.errors.list]
  ELSE [Unsettled EXCEPT !.state = "resolved", !.res = cb.res, !.results = cb.results,
                         !.misses = cb.misses]

\* pCall(this, getDocument, ...arguments) without a callback among the
\* arguments: getDocument is called with a callback that rejects the promise
\* with a truthy first argument and resolves it to the second otherwise
pCall(cb) ==
  IF IsSet(cb.err) THEN [Unsettled EXCEPT !.state = "rejected", !.err = cb.err]
  ELSE IF ~cb.errors.null
  THEN [Unsettled EXCEPT !.state = "rejected", !.errors = cb.errors.list]
  ELSE [Unsettled EXCEPT !.state = "resolved", !.res = cb.res, !.results = cb.results]

NoCallback ==
  [called |-> 0, nargs |-> 0, err |-> NoErr, errors |-> ErrorsResult(<<>>), results |-> <<>>,
   misses |-> <<>>, res |-> NoDoc, part |-> NoPartition]

IdleGet(b) ==
  [pc |-> "idle", keys |-> <<>>, single |-> FALSE, passed |-> FALSE, promise |-> FALSE,
   settled |-> Unsettled,
   options |-> NoOptions, bucket |-> b, getRes |-> [k \in GetKeys |-> Entry(FALSE, Undefined, 0, NoErr)],
   cb |-> NoCallback]

\* fn is called with cb (the caller's callback, or the one of the promise)
Completed(g, cb) ==
  [g EXCEPT !.pc = "done", !.cb = cb,
            !.settled = IF g.promise THEN pCall(cb) ELSE Unsettled]

RECURSIVE SeqsUpTo(_, _)
SeqsUpTo(S, n) ==
  IF n = 0 THEN {<<>>}
  ELSE LET shorter == SeqsUpTo(S, n - 1)
       IN  shorter \cup {Append(q, x) : q \in shorter, x \in S}

GetCallOptions ==
  { [passed |-> FALSE, options |-> NoOptions],
    [passed |-> TRUE, options |-> NoOptions],
    [passed |-> TRUE, options |-> [NoOptions EXCEPT !.missing = "true"]],
    [passed |-> TRUE, options |-> [NoOptions EXCEPT !.missing = "false"]] }

\* faulty variant: only the absent key is answered without a store call
NoKeysScalarOnly(keys, single) == single /\ keys = <<"">>

\* !keys || (Array.isArray(keys) && !keys.length)
NoKeys(keys, single) == IF single THEN keys = <<"">> ELSE keys = <<>>

\* driver.get(keys[, options][, fn]) with an array of keys
GetBatch ==
  /\ get.pc = "idle"
  /\ \E ks \in SeqsUpTo(GetKeys, MaxKeys), o \in GetCallOptions, promise \in BOOLEAN :
       get' = [get EXCEPT !.keys = ks, !.single = FALSE, !.passed = o.passed,
                          !.promise = promise,
                          !.options = GetOptions(o.passed, o.options),
                          !.pc = IF NoKeys(ks, FALSE) THEN "nextTick" ELSE "getMulti"]
  /\ UNCHANGED <<store, initial, config, call, lost, extWrites, op, cls, proxy, ropts>>

\* driver.get(key[, options][, fn]) with one key ("" is the absent key)
GetSingle ==
  /\ get.pc = "idle"
  /\ \E k \in GetKeys \cup {""}, o \in GetCallOptions, promise \in BOOLEAN :
       get' = [get EXCEPT !.keys = <<k>>, !.single = TRUE, !.passed = o.passed,
                          !.promise = promise,
                          !.options = GetOptions(o.passed, o.options),
                          !.pc = IF NoKeys(<<k>>, TRUE) THEN "nextTick" ELSE "get"]
  /\ UNCHANGED <<store, initial, config, call, lost, extWrites, op, cls, proxy, ropts>>

\* process.nextTick(fn)
NextTick ==
  /\ get.pc = "nextTick"
  /\ get' = Completed(get, [NoCallback EXCEPT !.called = 1])
  /\ UNCHANGED <<store, initial, config, call, lost, extWrites, op, cls, proxy, ropts>>

\* the callback of bucket.getMulti
GetMultiCb ==
  /\ get.pc = "getMulti"
  /\ \E whole \in {NoErr, ErrOther}, fault \in [GetKeys -> Faults] :
       LET getRes == [k \in GetKeys |-> MultiEntry(get.bucket[k], fault[k])]
           p == Reconcile(get.keys, getRes, NoPartition)
           pass == PassMisses(config, get.options)
       IN  get' = Completed([get EXCEPT !.getRes = getRes],
                            IF IsSet(whole) /\ isObject(whole)
                            THEN [NoCallback EXCEPT !.called = 1, !.nargs = 1, !.err = whole]
                            ELSE [NoCallback EXCEPT
                                    !.called = 1,
                                    !.part = p,
                                    !.nargs = IF pass THEN 3 ELSE 2,
                                    !.errors = ErrorsResult(p.errors),
                                    !.results = p.results,
                                    !.misses = IF pass THEN p.misses ELSE <<>>])
  /\ UNCHANGED <<store, initial, config, call, lost, extWrites, op, cls, proxy, ropts>>

\* the callback of bucket.get
BucketGetCb ==
  /\ get.pc = "get"
  /\ \E fault \in {NoErr, ErrTemporary, ErrOther} :
       LET d == get.bucket[get.keys[1]]
           err == IF fault # NoErr THEN fault
                  ELSE IF d.exists THEN NoErr ELSE ErrKeyNotFound
           getRes == IF err = NoErr THEN Handle(d.value, d.cas) ELSE NoDoc
       IN  get' = Completed(
                    [get EXCEPT !.getRes = [@ EXCEPT ![get.keys[1]] =
                                              Entry(TRUE, getRes.value, getRes.cas, err)]],
                    [NoCallback EXCEPT
                       !.called = 1, !.nargs = 2,
                       !.err = IF IsSet(err) /\ isKeyNotFound(err) THEN NoErr ELSE err,
                       !.res = getRes])
  /\ UNCHANGED <<store, initial, config, call, lost, extWrites, op, cls, proxy, ropts>>

(***************************************************************************)
(* The facade operations called on their own: insert, upsert, remove and   *)
(* getAndLock on one key.  op.tries counts the attempts that were retried, *)
(* op.errs holds the error of every answer the store gave to this call     *)
(* (NoErr for a success), op.before the store when the call was made, and  *)
(* op.prev the call made before this one.                                  *)
(***************************************************************************)
FacadeTypes == {"insert", "upsert", "remove", "getAndLock"}
FacadeKeys == {"", "k"}
\* the errors a store operation may fail with whatever the document is
StoreFaults == {ErrTemporary, ErrBusy, ErrOther}
\* the value the calls write
FacadeValue == Obj(<<0>>)

NoOutcome == [called |-> 0, err |-> NoErr, res |-> NoDoc]
NoPrev == [type |-> "none", key |-> "", err |-> NoErr]
IdleOp ==
  [pc |-> "idle", type |-> "none", key |-> "", tries |-> 0, errs |-> <<>>,
   cb |-> NoOutcome, n |-> 0, before |-> NoDoc, prev |-> NoPrev]

\* faulty variant: no operation looks at its key
SkipsStoreNever(type, key) == FALSE

\* if (!key) return process.nextTick(fn)   (remove and write only)
SkipsStore(type, key) == type \in {"insert", "upsert", "remove"} /\ key = ""

\* faulty variant: the error of bucket.remove handed on as it is
RemoveAnswerRaw(r) == [err |-> r.err, res |-> r.res]

\* the callback of bucket.remove
RemoveAnswer(r) ==
  [err |-> IF r.err # NoErr /\ isKeyNotFound(r.err) THEN NoErr ELSE r.err, res |-> r.res]

\* faulty variant: the error of bucket.getAndLock handed on as it is
GetAndLockAnswerRaw(r) == [err |-> r.err, res |-> r.res]

\* the callback of bucket.getAndLock, which calls rFn
GetAndLockAnswer(r) ==
  [err |-> IF r.err # NoErr /\ isKeyNotFound(r.err) THEN NoErr ELSE r.err, res |-> r.res]

\* this.bucket[type](key, value, options, rFn)
WriteAnswer(r) == [err |-> r.err, res |-> r.res]

\* the store operation of a facade call
StoreOp(type, s) ==
  CASE type = "insert" -> BucketInsert(s, FacadeValue, NoOpts)
    [] type = "upsert" -> BucketUpsert(s, FacadeValue, NoOpts)
    [] type = "remove" -> BucketRemove(s, NoOpts)
    [] OTHER -> BucketGetAndLock(s)

\* what the facade hands to its retry wrapper (or, remove, to fn)
FacadeAnswer(type, r) ==
  CASE type = "remove" -> RemoveAnswer(r)
    [] type = "getAndLock" -> GetAndLockAnswer(r)
    [] OTHER -> WriteAnswer(r)

\* the facade function is entered
Entered(o, type, key, s) ==
  [IdleOp EXCEPT !.type = type, !.key = key, !.n = o.n + 1, !.before = s,
                 !.prev = IF o.pc = "done" THEN [type |-> o.type, key |-> o.key, err |-> o.cb.err]
                          ELSE NoPrev,
                 !.pc = IF SkipsStore(type, key) THEN "nextTick" ELSE "store"]

\* the store has answered r: remove calls fn, the others go through
\* async.retry with errorFilter isTemporaryError
Answered(o, cfg, r) ==
  LET a == FacadeAnswer(o.type, r)
      seen == [o EXCEPT !.errs = Append(@, r.err)]
  IN  IF o.type # "remove" /\ FacadeRetries(o, cfg, a.err)
      THEN [seen EXCEPT !.tries = @ + 1]
      ELSE [seen EXCEPT !.pc = "done",
                        !.cb = [called |-> o.cb.called + 1, err |-> a.err, res |-> a.res]]

\* driver.insert / upsert / remove / getAndLock (key[, value], fn)
FacadeCall ==
  /\ op.pc \in {"idle", "done"}
  /\ op.n < MaxOps
  /\ \E type \in FacadeTypes, key \in FacadeKeys :
       op' = Entered(op, type, key, store)
  /\ UNCHANGED <<store, initial, config, call, lost, extWrites, get, cls, proxy, ropts>>

\* process.nextTick(fn): fn is called without arguments
FacadeTick ==
  /\ op.pc = "nextTick"
  /\ op' = [op EXCEPT !.pc = "done", !.cb = [NoOutcome EXCEPT !.called = 1]]
  /\ UNCHANGED <<store, initial, config, call, lost, extWrites, get, cls, proxy, ropts>>

\* the store answers the operation in flight on the key
FacadeStoreCb ==
  /\ op.pc = "store"
  /\ op.key # ""
  /\ \E r \in {StoreOp(op.type, store)} \cup {Reply(store, e, NoDoc) : e \in StoreFaults} :
       /\ store' = r.s
       /\ op' = Answered(op, config, r)
  /\ UNCHANGED <<initial, config, call, lost, extWrites, get, cls, proxy, ropts>>

\* bucket.getAndLock is handed an empty key: the client either throws or
\* answers with an error of its own
FacadeEmptyKeyCb ==
  /\ op.pc = "store"
  /\ op.key = ""
  /\ \/ op' = [op EXCEPT !.pc = "thrown"]
     \/ op' = Answered(op, config, Reply(store, ErrOther, NoDoc))
  /\ UNCHANGED <<store, initial, config, call, lost, extWrites, get, cls, proxy, ropts>>

(***************************************************************************)
(* The classifiers applied to an error of any shape.                       *)
(***************************************************************************)
Messages ==
  { <<>>,
    <<"key", "not", "found">>,
    <<"Key", "not", "found">>,
    <<"key", "not">>,
    <<"the", "key", "not", "found", "here">>,
    <<"The", "key", "does", "not", "exist", "on", "the", "server">>,
    <<"Temporary", "failure", "received", "from", "server">>,
    <<"temporary", "failure">>,
    <<"Client-Side", "timeout", "exceeded">> }
Codes ==
  {NoCode} \cup {NumCode(n) : n \in {0, 11, 12, 13, 23}} \cup {StrCode(n) : n \in {0, 11, 13}}
\* null, undefined, a string and a number, and objects and functions with
\* every code and message
ClassifierInputs ==
  {[kind |-> k, code |-> NoCode, msg |-> <<>>] :
     k \in {"null", "undefined", "string", "number"}}
  \cup {[kind |-> k, code |-> c, msg |-> m] :
          k \in {"object", "function"}, c \in Codes, m \in Messages}

IdleCls == [err |-> NoErr, keyNotFound |-> "none", tempError |-> "none"]
Answer(b) == IF b THEN "true" ELSE "false"

\* Driver.isKeyNotFound(err)
IsKeyNotFoundCall ==
  /\ cls.keyNotFound = "none"
  /\ cls' = [cls EXCEPT !.keyNotFound = Answer(isKeyNotFound(cls.err))]
  /\ UNCHANGED <<store, initial, config, call, lost, extWrites, get, op, proxy, ropts>>

\* Driver.isTemporaryError(err)
IsTemporaryErrorCall ==
  /\ cls.tempError = "none"
  /\ cls' = [cls EXCEPT !.tempError = Answer(isTemporaryError(cls.err))]
  /\ UNCHANGED <<store, initial, config, call, lost, extWrites, get, op, proxy, ropts>>

(***************************************************************************)
(* Driver.create: the functions of the bucket's prototype that the Driver  *)
(* does not define are added to Driver.prototype.  proxy.proto is the      *)
(* prototype as for-in enumerates it, proxy.p the loop variable after the  *)
(* loop, proxy.fn and proxy.how the proxied function last called and the   *)
(* way it called the bucket.                                               *)
(***************************************************************************)
syncFunctions ==
  {"disconnect", "invalidateQueryCache", "lookupIn", "manager", "mutateIn", "query",
   "setTranscoder", "touch"}
\* the methods of class Driver
DriverMethods ==
  {"get", "getAndLock", "remove", "insert", "upsert", "atomic", "_atomicWithLock",
   "_atomicNoLock", "getServerVersion"}
Underscored == {"_maybeInvoke"}
Property(name, fn, own) == [name |-> name, fn |-> fn, own |-> own]
ProtoProperties ==
  { Property("getMulti", TRUE, TRUE), Property("counter", TRUE, TRUE),
    Property("manager", TRUE, TRUE), Property("touch", TRUE, TRUE),
    Property("get", TRUE, TRUE), Property("_maybeInvoke", TRUE, TRUE),
    Property("connected", FALSE, TRUE), Property("on", TRUE, FALSE) }

\* the test of the for-in loop
Exposed(prop) ==
  /\ prop.own
  /\ prop.name \notin Underscored
  /\ prop.fn
  /\ prop.name \notin DriverMethods
  /\ prop.name # "constructor"

RECURSIVE Names(_)
Names(q) ==
  IF q = <<>> THEN <<>>
  ELSE (IF Exposed(Head(q)) THEN <<Head(q).name>> ELSE <<>>) \o Names(Tail(q))

\* the loop variable once the loop is over
LastEnumerated(q) == IF q = <<>> THEN "undefined" ELSE q[Len(q)].name

\* the body of a proxied function: syncFunctions.indexOf(p) < 0
How(p, fnName) == IF p \notin syncFunctions THEN "direct" ELSE "pCall"

IdleProxy ==
  [proto |-> <<>>, created |-> FALSE, fnNames |-> <<>>, p |-> "undefined",
   fn |-> "", how |-> "none"]

\* Driver.create(bucket)
Create ==
  /\ ~proxy.created
  /\ proxy' = [proxy EXCEPT !.created = TRUE, !.fnNames = Names(proxy.proto),
                            !.p = LastEnumerated(proxy.proto)]
  /\ UNCHANGED <<store, initial, config, call, lost, extWrites, get, op, cls, ropts>>

\* driver[fnName](...arguments) for a proxied fnName
ProxyCall ==
  /\ proxy.created
  /\ \E i \in 1..Len(proxy.fnNames) :
       proxy' = [proxy EXCEPT !.fn = proxy.fnNames[i],
                              !.how = How(proxy.p, proxy.fnNames[i])]
  /\ UNCHANGED <<store, initial, config, call, lost, extWrites, get, op, cls, ropts>>

(***************************************************************************)
(* The options handed to async.retry.  ropts.ctor are the options given to *)
(* Driver.create; ropts.options is the options object of the caller, which *)
(* the caller hands to one call after the other, and ropts.given what it   *)
(* held at first; ropts.fn is the function called last, ropts.lock the     *)
(* variant atomic chose, ropts.times and ropts.interval what the call      *)
(* handed to async.retry, and ropts.prev the same of the call before.      *)
(***************************************************************************)
\* faulty variant: the interval is that of the options as the caller gave them
FacadeRoptsOwnInterval(options, cfg) ==
  [times |-> FacadeTimes(defaults(options, cfg)), interval |-> options.tempRetryInterval]

\* getAndLock, write: const opts = defaults(options, this.config); ropts
FacadeRopts(options, cfg) ==
  LET opts == defaults(options, cfg)
  IN  [times |-> FacadeTimes(opts), interval |-> opts.tempRetryInterval]

\* faulty variant: the interval is that of the options as the caller gave them
AtomicRoptsOwnInterval(options, cfg) ==
  [times |-> RetryTimes(options, cfg), interval |-> options.atomicRetryInterval]

\* _atomicWithLock, _atomicNoLock: const opts = defaults(options, this.config); ropts
AtomicRopts(options, cfg) ==
  LET opts == defaults(options, cfg)
  IN  [times |-> RetryTimes(options, cfg), interval |-> opts.atomicRetryInterval]

NoRopts == [fn |-> "none", lock |-> "none", times |-> 0, interval |-> -1]
IdleRopts ==
  [ctor |-> NoOptions, given |-> NoOptions, options |-> NoOptions, n |-> 0,
   fn |-> "none", lock |-> "none", times |-> 0, interval |-> -1, prev |-> NoRopts]

\* a call made with the options object: what the call took from it, and the
\* object as defaults(options, this.config) leaves it
Called(ro, fn, lock, r, cfg) ==
  [ro EXCEPT !.n = @ + 1, !.fn = fn, !.lock = lock, !.times = r.times,
             !.interval = r.interval,
             !.options = defaults(ro.options, cfg),
             !.prev = [fn |-> ro.fn, lock |-> ro.lock, times |-> ro.times,
                       interval |-> ro.interval]]

LayerOptions(times, interval) ==
  {[NoOptions EXCEPT !.atomicRetryTimes = at, !.atomicRetryInterval = ai,
                     !.retryTemporaryErrors = r, !.tempRetryTimes = tt,
                     !.tempRetryInterval = ti] :
     at \in {0, times}, ai \in {-1, interval}, r \in {"unset", "true", "false"},
     tt \in {0, times}, ti \in {-1, interval}}
\* what a call gives and what Driver.create is given
LayerCallOptions == LayerOptions(2, 10)
LayerCtorOptions == LayerOptions(3, 20)

\* driver.insert / driver.upsert(key, value, options, fn)
WriteRetryOptions ==
  /\ ropts.n < MaxOps
  /\ ropts' = Called(ropts, "write", "none", FacadeRopts(ropts.options, config), config)
  /\ UNCHANGED <<store, initial, config, call, lost, extWrites, get, op, cls, proxy>>

\* driver.getAndLock(key, options, fn)
GetAndLockRetryOptions ==
  /\ ropts.n < MaxOps
  /\ ropts' = Called(ropts, "getAndLock", "none", FacadeRopts(ropts.options, config),
                     config)
  /\ UNCHANGED <<store, initial, config, call, lost, extWrites, get, op, cls, proxy>>

\* driver.atomic(key, transform, options, fn): the variant is chosen on the
\* options as they are when atomic is entered
AtomicRetryOptions ==
  /\ ropts.n < MaxOps
  /\ ropts' = Called(ropts, "atomic", Answer(UsesLock(ropts.options)),
                     AtomicRopts(ropts.options, config), config)
  /\ UNCHANGED <<store, initial, config, call, lost, extWrites, get, op, cls, proxy>>

(***************************************************************************)
(* The specifications.                                                     *)
(***************************************************************************)
InitialStores ==
  { [exists |-> FALSE, value |-> Undefined, cas |-> 0, locked |-> FALSE],
    [exists |-> TRUE, value |-> Obj(<<>>), cas |-> 1, locked |-> FALSE] }

\* the options handed to Driver.create
AtomicCtorOptions == {NoOptions}
RetryCtorOptions == {[NoOptions EXCEPT !.atomicRetryTimes = n] : n \in 0..MaxRetryOpt}
FacadeCtorOptions ==
  {[NoOptions EXCEPT !.retryTemporaryErrors = r, !.tempRetryTimes = n] :
     r \in {"unset", "true", "false"}, n \in 0..MaxRetryOpt}
GetCtorOptions == {[NoOptions EXCEPT !.missing = m] : m \in {"unset", "true", "false"}}

Init ==
  /\ store \in InitialStores
  /\ initial = store
  /\ config \in {Constructor(o) : o \in AtomicCtorOptions}
  /\ call = [c \in Calls |-> IdleCall]
  /\ lost = FALSE
  /\ extWrites = 0
  /\ get = IdleGet([k \in GetKeys |-> Absent])
  /\ op = IdleOp
  /\ cls = IdleCls
  /\ proxy = IdleProxy
  /\ ropts = IdleRopts

Next ==
  \/ \E c \in Calls : Atomic(c)
  \/ \E c \in Calls : GetAndLockCb(c)
  \/ \E c \in Calls : GetCb(c)
  \/ \E c \in Calls : UpsertCb(c)
  \/ \E c \in Calls : InsertCb(c)
  \/ \E c \in Calls : RemoveCb(c)
  \/ \E c \in Calls : UnlockNoopCb(c)
  \/ \E c \in Calls : UnlockRemoveCb(c)

\* several concurrent atomic() calls, the only writers of the key
Spec == Init /\ [][Next]_vars

NextLegacy ==
  \/ \E c \in Calls : AtomicLegacy(c)
  \/ \E c \in Calls : GetAndLockCb(c)
  \/ \E c \in Calls : GetCb(c)
  \/ \E c \in Calls : UpsertCb(c)
  \/ \E c \in Calls : RemoveCb(c)
  \/ \E c \in Calls : UnlockNoopCb(c)
  \/ \E c \in Calls : UnlockRemoveCb(c)

\* several concurrent atomic() calls of the earlier implementation
SpecLegacy == Init /\ [][NextLegacy]_vars

\* every store operation in flight is answered in the end
Answers ==
  \A c \in Calls :
    /\ WF_vars(GetAndLockCb(c)) /\ WF_vars(GetCb(c))
    /\ WF_vars(UpsertCb(c)) /\ WF_vars(InsertCb(c)) /\ WF_vars(RemoveCb(c))
    /\ WF_vars(UnlockNoopCb(c)) /\ WF_vars(UnlockRemoveCb(c))

\* Spec on a store that answers every operation
SpecLive == Spec /\ Answers

InitRetry ==
  /\ store \in InitialStores
  /\ initial = store
  /\ config \in {Constructor(o) : o \in RetryCtorOptions}
  /\ call = [c \in Calls |-> IdleCall]
  /\ lost = FALSE
  /\ extWrites = 0
  /\ get = IdleGet([k \in GetKeys |-> Absent])
  /\ op = IdleOp
  /\ cls = IdleCls
  /\ proxy = IdleProxy
  /\ ropts = IdleRopts

NextRetry ==
  \/ AtomicAlone(1)
  \/ GetAndLockCb(1)
  \/ GetCb(1)
  \/ UpsertCb(1)
  \/ InsertCb(1)
  \/ RemoveCb(1)
  \/ UnlockNoopCb(1)
  \/ UnlockRemoveCb(1)
  \/ ExternalWrite

\* one atomic() call racing the writes of other processes
SpecRetry == InitRetry /\ [][NextRetry]_vars

InitGet ==
  /\ store \in {s \in InitialStores : ~s.exists}
  /\ initial = store
  /\ config \in {Constructor(o) : o \in GetCtorOptions}
  /\ call = [c \in Calls |-> IdleCall]
  /\ lost = FALSE
  /\ extWrites = 0
  /\ get \in {IdleGet(b) : b \in Buckets}
  /\ op = IdleOp
  /\ cls = IdleCls
  /\ proxy = IdleProxy
  /\ ropts = IdleRopts

NextGet ==
  \/ GetBatch
  \/ GetSingle
  \/ NextTick
  \/ GetMultiCb
  \/ BucketGetCb

SpecGet == InitGet /\ [][NextGet]_vars


InitFacade ==
  /\ store \in InitialStores
  /\ initial = store
  /\ config \in {Constructor(o) : o \in FacadeCtorOptions}
  /\ call = [c \in Calls |-> IdleCall]
  /\ lost = FALSE
  /\ extWrites = 0
  /\ get = IdleGet([k \in GetKeys |-> Absent])
  /\ op = IdleOp
  /\ cls = IdleCls
  /\ proxy = IdleProxy
  /\ ropts = IdleRopts

NextFacade ==
  \/ FacadeCall
  \/ FacadeTick
  \/ FacadeStoreCb
  \/ FacadeEmptyKeyCb

\* facade operations called one after the other on one key
SpecFacade == InitFacade /\ [][NextFacade]_vars

FaultCtorOptions == RetryCtorOptions \cup FacadeCtorOptions

InitFault ==
  /\ store \in InitialStores
  /\ initial = store
  /\ config \in {Constructor(o) : o \in FaultCtorOptions}
  /\ call = [c \in Calls |-> IdleCall]
  /\ lost = FALSE
  /\ extWrites = 0
  /\ get = IdleGet([k \in GetKeys |-> Absent])
  /\ op = IdleOp
  /\ cls = IdleCls
  /\ proxy = IdleProxy
  /\ ropts = IdleRopts

\* either one atomic() call or facade operations are made
AtomicTurn == op.pc = "idle"
FacadeTurn == call[1].pc = "idle"
NextFault ==
  \/ AtomicTurn /\ AtomicAlone(1)
  \/ AtomicTurn /\ GetAndLockCb(1)
  \/ AtomicTurn /\ GetCb(1)
  \/ AtomicTurn /\ UpsertCb(1)
  \/ AtomicTurn /\ InsertCb(1)
  \/ AtomicTurn /\ RemoveCb(1)
  \/ AtomicTurn /\ UnlockNoopCb(1)
  \/ AtomicTurn /\ UnlockRemoveCb(1)
  \/ AtomicTurn /\ StoreFault(1)
  \/ AtomicTurn /\ ExternalWrite
  \/ FacadeTurn /\ FacadeCall
  \/ FacadeTurn /\ FacadeTick
  \/ FacadeTurn /\ FacadeStoreCb
  \/ FacadeTurn /\ FacadeEmptyKeyCb

\* the store may fail any operation: one atomic() call racing other
\* writers, or facade operations one after the other
SpecFault == InitFault /\ [][NextFault]_vars

Prototypes ==
  {q \in SeqsUpTo(ProtoProperties, MaxProto) :
     \A i, j \in 1..Len(q) : i # j => q[i] # q[j]}

InitOthers ==
  /\ store \in {s \in InitialStores : ~s.exists}
  /\ initial = store
  /\ call = [c \in Calls |-> IdleCall]
  /\ lost = FALSE
  /\ extWrites = 0
  /\ get = IdleGet([k \in GetKeys |-> Absent])
  /\ op = IdleOp

InitClassify ==
  /\ InitOthers
  /\ config = Constructor(NoOptions)
  /\ cls \in {[IdleCls EXCEPT !.err = e] : e \in ClassifierInputs}
  /\ proxy = IdleProxy
  /\ ropts = IdleRopts

NextClassify ==
  \/ IsKeyNotFoundCall
  \/ IsTemporaryErrorCall

\* the classifiers applied to every shape of error
SpecClassify == InitClassify /\ [][NextClassify]_vars

InitCreate ==
  /\ InitOthers
  /\ config = Constructor(NoOptions)
  /\ cls = IdleCls
  /\ proxy \in {[IdleProxy EXCEPT !.proto = q] : q \in Prototypes}
  /\ ropts = IdleRopts

NextCreate ==
  \/ Create
  \/ ProxyCall

\* Driver.create on a bucket and calls of the functions it proxies
SpecCreate == InitCreate /\ [][NextCreate]_vars

InitOptions ==
  /\ InitOthers
  /\ cls = IdleCls
  /\ proxy = IdleProxy
  /\ \E o \in LayerCtorOptions, q \in LayerCallOptions :
       /\ config = Constructor(o)
       /\ ropts = [IdleRopts EXCEPT !.ctor = o, !.given = q, !.options = q]

NextOptions ==
  \/ WriteRetryOptions
  \/ GetAndLockRetryOptions
  \/ AtomicRetryOptions

\* one call on a driver, with every layering of the retry options
SpecOptions == InitOptions /\ [][NextOptions]_vars


(***************************************************************************)
(* Properties of the atomic engine.                                        *)
(***************************************************************************)
Done(c) == call[c].pc = "done"
Succeeded(c) == Done(c) /\ call[c].err = NoErr
Count(seq, x) == Cardinality({i \in 1..Len(seq) : seq[i] = x})

\* calls 1 and 2 are two atomic(key, tranform-appending-own-marker, fn) calls
\* without options on a key that did not exist, and nobody else writes the key
TwoAppendersOnFreshKey ==
  /\ ~initial.exists
  /\ extWrites = 0
  /\ \A c \in {1, 2} : /\ call[c].pc # "idle"
                       /\ call[c].tr = "append"
                       /\ ~call[c].passed
                       /\ call[c].times = DefaultAtomicRetryTimes
  /\ \A c \in Calls \ {1, 2} : call[c].pc = "idle"

\* C1: two concurrent atomic calls without options and with the default retry
\* budget, each appending its own marker, on a previously absent key: under
\* every interleaving neither call ends with an error, and once both have
\* completed the stored document holds both markers, each exactly once.  A
\* call is past its first attempt only because its insert lost, and the write
\* it then issues is an upsert carrying the CAS of the document it just read.
C1_ParallelAppendsBothKept ==
  TwoAppendersOnFreshKey =>
    /\ \A c \in {1, 2} :
         /\ call[c].pc # "thrown"
         /\ Done(c) => call[c].err = NoErr
         /\ call[c].pc = "insert" => call[c].attempt = 1
         /\ call[c].attempt > 1 => call[c].nrejected = call[c].attempt - 1
         /\ (call[c].attempt > 1 /\ call[c].pc \notin {"get", "done"}) =>
              /\ call[c].pc = "upsert"
              /\ call[c].doc.found
              /\ call[c].opts = CasOpts(call[c].doc.cas)
    /\ (Done(1) /\ Done(2)) =>
         /\ store.exists
         /\ Len(store.value.keys) = 2
         /\ \A c \in {1, 2} : Count(store.value.keys, c) = 1

\* both calls have completed and one of them needed its second attempt
C1_Witness ==
  /\ TwoAppendersOnFreshKey
  /\ Done(1) /\ Done(2)
  /\ \E c \in {1, 2} : call[c].attempt = 2 /\ call[c].nrejected = 1

\* C2: every write of an atomic call that takes effect writes the call's
\* transform of the value stored immediately before that write (so the final
\* document is the transforms of the successful calls applied one after
\* another), for any calls, variants and interleaving.
C2_NoLostUpdate == ~lost

\* C3: a call that does not set atomicLock, on a driver whose configuration
\* has atomicLock = true (the default), runs the locking variant: its read is
\* getAndLock, never a plain get.
C3_DefaultIsLocking ==
  \A c \in Calls :
    (call[c].options.atomicLock = "unset" /\ config.atomicLock = "true") =>
      call[c].pc # "get"


\* C4: with atomicRetryTimes = n >= 1, a call never starts an (n+1)-th
\* attempt, and a call that has completed with every attempt's write rejected
\* by the store made exactly n attempts (n reads, n transform invocations,
\* n rejected writes) and completed with the conflict error, not a success.
C4_ExhaustsAfterNAttempts ==
  \A c \in Calls :
    call[c].pc # "idle" =>
      /\ call[c].times = config.atomicRetryTimes
      /\ call[c].times >= 1
      /\ call[c].attempt <= call[c].times
      /\ (Done(c) /\ call[c].nrejected = call[c].attempt) =>
           /\ call[c].attempt = call[c].times
           /\ call[c].ntransform = call[c].times
           /\ call[c].nrejected = call[c].times
           /\ call[c].neffect = 0
           /\ call[c].err = ErrKeyExists
           /\ call[c].called = 1

\* a call with n = 2 has completed after two attempts, both writes rejected
C4_Witness ==
  \E c \in Calls :
    /\ Done(c) /\ call[c].times = 2 /\ call[c].attempt = 2
    /\ call[c].nrejected = 2 /\ call[c].err = ErrKeyExists

\* the step is the answer to the read of call c
ReadStep(c) == call[c].pc \in {"get", "getAndLock"} /\ call'[c] # call[c]
\* the transform of call c asks for an upsert of a value whatever it is given
UpsertsValue(c) == call[c].tr = "append"

\* C5: atomic on a key that does not exist, either variant, with a transform
\* that returns Upsert with a value: the not-found read is no error (the
\* attempt goes on), the transform is called with undefined, and the write
\* issued is an insert of the transform's value, never an upsert; when the
\* key is still absent as the insert reaches the store (no concurrent
\* writer), the call completes without error and the key holds that value.
C5_CreateIfAbsent ==
  [][\A c \in Calls :
       /\ (ReadStep(c) /\ UpsertsValue(c) /\ ~store.exists) =>
            /\ call'[c].pc = "insert"
            /\ call'[c].attempt = call[c].attempt
            /\ call'[c].ntransform = call[c].ntransform + 1
            /\ call'[c].opr = tranform(Undefined, c)
            /\ call'[c].opts = NoOpts
            /\ store' = store
       /\ (call[c].pc = "insert" /\ call'[c] # call[c] /\ ~store.exists) =>
            /\ Succeeded(c)'
            /\ store'.exists
            /\ store'.value = Obj(<<c>>)
       /\ (UpsertsValue(c) /\ call'[c].pc = "upsert") => call'[c].doc.found
    ]_vars

\* a call of the locking variant has created the missing key by an insert
C5_Witness ==
  /\ ~initial.exists
  /\ \E c \in Calls :
       /\ Succeeded(c) /\ call[c].tr = "append" /\ call[c].attempt = 1
       /\ call[c].lock
       /\ store.exists /\ store.value = Obj(<<c>>)

\* a Noop call: its transform answers {action: Noop, value: NoopValue}
IsNoopCall(c) == call[c].tr = "noop" /\ call[c].pc # "idle"

SingleDone == get.pc = "done" /\ get.single /\ get.keys # <<"">>
\* a get of a non-empty array of keys has called back without a whole error
BatchDone == get.pc = "done" /\ ~get.single /\ get.cb.nargs >= 2
\* the call gave options with a missing field
ExplicitMissing == get.passed /\ get.options.missing # "unset"
\* every requested key has an entry of its own in the getMulti answer
AllAnswered == \A i \in 1..Len(get.keys) : get.getRes[get.keys[i]].own
\* the requested keys whose entry carries the key-not-found error
NotFoundKeys ==
  SelectSeq(get.keys, LAMBDA k : get.getRes[k].own /\ get.getRes[k].error = ErrKeyNotFound)

\* C7: a get of one key: when the key is absent from the store and the store
\* answers with its key-not-found error, the callback gets no error and no
\* result; when the store answers with any other error, the callback gets
\* that same error together with the result the store gave.
C7_SingleGetAbsentKey ==
  SingleDone =>
    LET k == get.keys[1]
        e == get.getRes[k]
    IN  /\ get.cb.called = 1
        /\ (~get.bucket[k].exists /\ e.error = ErrKeyNotFound) =>
             (get.cb.err = NoErr /\ get.cb.res = NoDoc)
        /\ e.error \in {ErrTemporary, ErrOther} =>
             /\ get.cb.err = e.error
             /\ get.cb.res.value = e.value /\ get.cb.res.cas = e.cas

\* a get of one absent key has called back, the store having said not-found
C7_Witness ==
  /\ SingleDone
  /\ ~get.bucket[get.keys[1]].exists
  /\ get.getRes[get.keys[1]].error = ErrKeyNotFound
  /\ get.cb.called = 1 /\ get.cb.err = NoErr

\* C8: a get of an array of keys K whose getMulti answer has an entry for
\* every key of K places every key in exactly one of found, misses and
\* errors: len(found) + len(misses) + len(errors) = len(K).
C8_BatchPartition ==
  (BatchDone /\ AllAnswered) =>
    Len(get.cb.part.results) + Len(get.cb.part.misses) + Len(get.cb.part.errors)
      = Len(get.keys)

\* C9: with the driver-wide missing = false, a get of an array of keys that
\* gives no missing of its own (no options at all, or options without a
\* missing field) calls back with two arguments (errors, results).
C9_DriverFalseHidesMisses ==
  (BatchDone /\ config.missing = "false" /\ ~ExplicitMissing) => get.cb.nargs = 2

\* C10: in a get of an array of keys, a missing given by the call decides
\* whether the misses are passed, whatever the driver-wide missing: passed
\* (three arguments) exactly when the call's missing is true; with the
\* driver-wide missing true and no missing from the call they are passed;
\* and the misses passed are the requested keys whose entry carries the
\* key-not-found error, in the order of the request.
C10_CallMissingTakesPrecedence ==
  BatchDone =>
    /\ ExplicitMissing => (get.cb.nargs = 3 <=> get.options.missing = "true")
    /\ (~ExplicitMissing /\ config.missing = "true") => get.cb.nargs = 3
    /\ get.cb.nargs = 3 => get.cb.misses = NotFoundKeys
    /\ get.cb.nargs = 2 => get.cb.misses = <<>>

\* driver-wide missing false, the call says missing: true, and the one absent
\* key of the two requested is passed as the miss
C10_Witness ==
  /\ BatchDone /\ config.missing = "false" /\ ExplicitMissing
  /\ get.options.missing = "true"
  /\ get.keys = <<"k1", "k2">>
  /\ get.cb.nargs = 3 /\ get.cb.misses = <<"k2">>
  /\ Len(get.cb.results) = 1


\* the requested keys whose entry has a truthy value
FoundKeys ==
  SelectSeq(get.keys, LAMBDA k : get.getRes[k].own /\ Truthy(get.getRes[k].value))
\* the requested keys whose entry carries an error that is not key-not-found
ErrorKeys ==
  SelectSeq(get.keys, LAMBDA k : /\ get.getRes[k].own
                                 /\ get.getRes[k].error \notin {NoErr, ErrKeyNotFound})

\* C11: the results of a get of an array of keys are in the order of the
\* request: one {value, cas} per requested key whose entry has a truthy
\* value, taken from that key's entry, the other keys skipped.
C11_FoundInRequestOrder ==
  BatchDone =>
    /\ Len(get.cb.results) = Len(FoundKeys)
    /\ \A i \in 1..Len(FoundKeys) :
         /\ get.cb.results[i].value = get.getRes[FoundKeys[i]].value
         /\ get.cb.results[i].cas = get.getRes[FoundKeys[i]].cas

\* two keys holding different documents were requested as <<k2, k1>> and
\* both found: the results follow the request
C11_Witness ==
  /\ BatchDone /\ get.keys = <<"k2", "k1">>
  /\ Len(get.cb.results) = 2
  /\ get.cb.results[1].value = get.bucket["k2"].value
  /\ get.cb.results[1].value # get.cb.results[2].value

\* C12: in a get of an array of keys the errors handed to the callback are
\* null exactly when no requested key's entry carries an error other than
\* key-not-found; otherwise they are the collection with one element (the
\* error, wrapped) per such key in request order; missing keys alone give
\* null, and the results (and the misses, when visible) are handed over with
\* the errors.
C12_MissingKeysAreNoError ==
  BatchDone =>
    /\ get.cb.errors.null <=> ErrorKeys = <<>>
    /\ Len(get.cb.errors.list) = Len(ErrorKeys)
    /\ \A i \in 1..Len(ErrorKeys) :
         get.cb.errors.list[i] = <<get.getRes[ErrorKeys[i]].error>>
    /\ get.cb.results = get.cb.part.results
    /\ get.cb.nargs = 3 => get.cb.misses = get.cb.part.misses

\* a request with a missing key and a found key calls back with null errors
C12_Witness ==
  /\ BatchDone /\ get.cb.errors.null /\ get.cb.nargs = 3
  /\ Len(get.cb.misses) = 1 /\ Len(get.cb.results) = 1


(***************************************************************************)
(* Properties of the facade operations.                                    *)
(***************************************************************************)
\* the facade operation `type` was called with a key and has called back
OpDone(type) == op.pc = "done" /\ op.type = type /\ op.key # ""
\* the error of the store's last answer to the operation
LastAnswer == op.errs[Len(op.errs)]
\* the errors classified as temporary
Transient == {ErrTemporary, ErrBusy}

\* C13: remove(key) of a key that is not in the store calls back without
\* error; a remove that follows a remove that called back without error
\* calls back without error as well (the store failing neither); and an error
\* of the store that is not key-not-found is handed to the caller as it is.
C13_RemoveOfAbsentKey ==
  OpDone("remove") =>
    /\ Len(op.errs) = 1 /\ op.cb.called = 1
    /\ (~op.before.exists /\ LastAnswer \notin StoreFaults) =>
         (LastAnswer = ErrKeyNotFound /\ op.cb.err = NoErr /\ store = op.before)
    /\ (op.prev = [type |-> "remove", key |-> op.key, err |-> NoErr] /\ LastAnswer \notin StoreFaults) =>
         (~op.before.exists /\ op.cb.err = NoErr)
    /\ LastAnswer \in StoreFaults \cup {ErrKeyExists} => op.cb.err = LastAnswer

\* a remove that deleted the document is followed by a remove of the now
\* absent key, and both called back without error
C13_Witness ==
  /\ OpDone("remove") /\ op.n = 2 /\ initial.exists
  /\ op.prev = [type |-> "remove", key |-> op.key, err |-> NoErr]
  /\ LastAnswer = ErrKeyNotFound /\ op.cb.err = NoErr

\* C14: getAndLock(key) of a key that is not in the store calls back without
\* error and with the store's (empty) result, and the store's key-not-found
\* answer ends the retries as a success does: it is never followed by another
\* store call, so a call first answered key-not-found made one store call,
\* also with retryTemporaryErrors = true and tempRetryTimes > 1.
C14_GetAndLockOfAbsentKey ==
  (op.type = "getAndLock" /\ op.key # "") =>
    /\ \A i \in 1..Len(op.errs) :
         op.errs[i] = ErrKeyNotFound => (i = Len(op.errs) /\ op.pc = "done")
    /\ (op.pc = "done" /\ LastAnswer = ErrKeyNotFound) =>
         /\ ~op.before.exists
         /\ op.cb.called = 1 /\ op.cb.err = NoErr /\ op.cb.res = NoDoc

\* with retries configured, getAndLock of an absent key called back after
\* one store call
C14_Witness ==
  /\ OpDone("getAndLock") /\ ~op.before.exists
  /\ config.retryTemporaryErrors = "true" /\ config.tempRetryTimes > 1
  /\ op.errs = <<ErrKeyNotFound>> /\ op.cb.err = NoErr

\* C15: insert, upsert and getAndLock: with retryTemporaryErrors not true the
\* store operation is made once whatever it answers; with it true another
\* attempt is made only after a temporary error, the call ends at the first
\* success or other error (which is handed to the caller), and never more
\* than tempRetryTimes attempts are made.
C15_TemporaryErrorRetry ==
  (op.type \in {"insert", "upsert", "getAndLock"} /\ op.key # "") =>
    LET made == Len(op.errs) + (IF op.pc = "store" THEN 1 ELSE 0)
        max == IF config.retryTemporaryErrors = "true" THEN config.tempRetryTimes ELSE 1
    IN  /\ made <= max
        /\ \A i \in 1..(made - 1) : op.errs[i] \in Transient
        /\ op.pc = "done" =>
             /\ op.cb.called = 1
             /\ LastAnswer \in Transient => (made = max /\ op.cb.err = LastAnswer)
             /\ LastAnswer \in {ErrOther, ErrKeyExists} => op.cb.err = LastAnswer
             /\ LastAnswer \in {NoErr, ErrKeyNotFound} =>
                  op.cb.err = (IF op.type = "getAndLock" THEN NoErr ELSE LastAnswer)

\* an insert succeeded at its second attempt, the first having failed with a
\* temporary error
C15_Witness ==
  /\ OpDone("insert") /\ config.retryTemporaryErrors = "true"
  /\ op.errs = <<ErrBusy, NoErr>> /\ op.cb.err = NoErr /\ store.exists

\* C16: with retryTemporaryErrors = true, a remove whose store operation
\* fails with a temporary error is attempted tempRetryTimes times before the
\* error reaches the caller.
C16_RemoveRetriesTemporaryErrors ==
  (OpDone("remove") /\ config.retryTemporaryErrors = "true" /\ op.cb.err \in Transient) =>
    Len(op.errs) = config.tempRetryTimes

\* C17: insert, upsert and remove called with an empty key make no store
\* call and call back once without error and without result; the store is
\* as it was.
C17_EmptyKeyWrites ==
  (op.type \in {"insert", "upsert", "remove"} /\ op.key = "") =>
    /\ op.pc \in {"nextTick", "done"}
    /\ op.errs = <<>> /\ op.tries = 0
    /\ store = op.before
    /\ op.pc = "done" => op.cb = [called |-> 1, err |-> NoErr, res |-> NoDoc]

\* an upsert with an empty key has called back, the key's document untouched
C17_Witness ==
  /\ op.pc = "done" /\ op.type = "upsert" /\ op.key = ""
  /\ op.cb.called = 1 /\ op.errs = <<>> /\ store = initial

\* C18: getAndLock called with an empty key makes no store call and calls
\* back without error and without result.
C18_EmptyKeyGetAndLock ==
  (op.type = "getAndLock" /\ op.key = "") =>
    /\ op.pc \in {"nextTick", "done"}
    /\ op.errs = <<>>
    /\ op.pc = "done" => op.cb = [called |-> 1, err |-> NoErr, res |-> NoDoc]


(***************************************************************************)
(* Properties of the retry loops when the store fails.                     *)
(***************************************************************************)
\* the step is a store operation of call c failing and the call ending
EndsByFault(c) ==
  /\ call'[c].nfault # call[c].nfault
  /\ call[c].pc # "done" /\ call'[c].pc = "done"
\* the step is a write of call c rejected by the store and the call ending
EndsByRejection(c) ==
  /\ call'[c].nrejected = call[c].nrejected + 1
  /\ call[c].pc # "done" /\ call'[c].pc = "done"
\* a facade insert, upsert or getAndLock has used all its attempts
FacadeExhausted ==
  /\ op.pc = "done" /\ op.key # ""
  /\ op.type \in {"insert", "upsert", "getAndLock"}
  /\ Len(op.errs) = FacadeTimes(config)
  /\ LastAnswer \in Transient

\* C19: when the attempts of a retry loop are used up, the caller gets the
\* error of the last attempt as it is, whatever the errors of the attempts
\* before: an atomic call ended by a failed store operation or by a rejected
\* write ends with that operation's error, at its last attempt; an insert,
\* upsert or getAndLock that failed tempRetryTimes times with temporary
\* errors ends with the error of the last store answer.
C19_LastErrorIsDelivered ==
  [][/\ \A c \in Calls :
          /\ EndsByFault(c) =>
               /\ call'[c].err = call'[c].fault
               /\ call'[c].attempt = call'[c].times
               /\ call'[c].called = 1
          /\ EndsByRejection(c) =>
               /\ call'[c].err = ErrKeyExists
               /\ call'[c].attempt = call'[c].times
     /\ FacadeExhausted' => (op'.cb.err = LastAnswer' /\ op'.cb.called = 1)
    ]_vars

\* an atomic call with two attempts failed first with one error, then with
\* another, and ended with the second
C19_Witness ==
  \E c \in Calls :
    /\ Done(c) /\ call[c].times = 2 /\ call[c].attempt = 2
    /\ call[c].fault1 = ErrOther /\ call[c].fault = ErrTemporary
    /\ call[c].nrejected = 0
    /\ call[c].err = ErrTemporary

\* the step is a store operation of call c failing with the error e
FailsWith(c, e) == call'[c].nfault # call[c].nfault /\ call'[c].fault = e

\* C20 as stated: a store operation of an atomic call (the read, the write,
\* the remove or the unlock) that fails with an error that is neither a CAS
\* conflict nor temporary ends the call at once with that error: no attempt
\* follows.
C20_OtherErrorAborts ==
  [][\A c \in Calls :
       (call'[c].nfault # call[c].nfault /\ call'[c].fault = ErrOther) =>
         /\ call'[c].pc = "done"
         /\ call'[c].err = ErrOther
         /\ call'[c].attempt = call[c].attempt
    ]_vars


\* C20 amended: a store operation of an atomic call that fails with an error
\* that is neither a CAS conflict nor temporary ends the attempt like any
\* other error: while fewer than atomicRetryTimes attempts were made the next
\* attempt starts from the read and the caller hears nothing; at the last
\* attempt the call ends with that error.
C20_OtherErrorIsRetried ==
  [][\A c \in Calls :
       FailsWith(c, ErrOther) =>
         IF call[c].attempt < call[c].times
         THEN /\ call'[c].pc = ReadOp(call[c])
              /\ call'[c].attempt = call[c].attempt + 1
              /\ call'[c].called = 0
         ELSE /\ call'[c].pc = "done"
              /\ call'[c].err = ErrOther
              /\ call'[c].called = 1
    ]_vars

\* the first attempt of a call with five attempts failed with such an error
\* and the second attempt is reading
C20_Witness ==
  \E c \in Calls :
    /\ call[c].times = DefaultAtomicRetryTimes /\ call[c].attempt = 2
    /\ call[c].fault = ErrOther /\ call[c].nfault = 1
    /\ call[c].pc \in {"get", "getAndLock"} /\ call[c].called = 0

\* the answer of the store to the read in flight of call c
ReadReply(c) ==
  IF call[c].pc = "get" THEN BucketGet(store) ELSE BucketGetAndLock(store)
\* the step is call c's read being answered and the transform being called
Transforms(c) ==
  /\ call[c].pc \in {"get", "getAndLock"}
  /\ call'[c].ntransform = call[c].ntransform + 1

\* C21: an attempt of an atomic call that fails with attempts left (a write
\* rejected for its CAS, a document found locked, a store failure) is
\* followed by an attempt that starts at the read with none of the locals of
\* the failed one; the transform is called again, on the value that read
\* returned; and the token sent with an upsert, or with the remove of the
\* non-locking variant, is the token that same read returned.
C21_RetryRestartsFromRead ==
  [][\A c \in Calls :
       /\ (call[c].pc # "idle" /\ call'[c].attempt # call[c].attempt) =>
            /\ call'[c].attempt = call[c].attempt + 1
            /\ call'[c].pc = ReadOp(call[c])
            /\ call'[c].doc = NoDoc /\ call'[c].opts = NoOpts
            /\ call'[c].opr = Directive(NOOP, Undefined)
       /\ (call'[c].pc \in {"upsert", "insert", "remove", "unlockRemove", "unlockNoop"}
             /\ call[c].pc \in {"get", "getAndLock"}) =>
            /\ Transforms(c)
            /\ call'[c].doc = ReadReply(c).res
            /\ call'[c].opr = Transform(call[c].tr, c, ReadReply(c).res.value)
       /\ (call'[c].pc = "upsert" /\ call[c].pc # "upsert") =>
            /\ Transforms(c)
            /\ ReadReply(c).res.found
            /\ call'[c].opts.hasCas /\ call'[c].opts.cas = ReadReply(c).res.cas
       /\ (call'[c].pc = "remove" /\ call[c].pc = "get") =>
            /\ call'[c].opts.hasCas = ReadReply(c).res.found
            /\ call'[c].opts.cas = ReadReply(c).res.cas
       /\ (call'[c].pc \in {"upsert", "insert", "remove"} /\ ~Transforms(c)
             /\ call[c].pc # "unlockRemove") =>
            call'[c].pc = call[c].pc /\ call'[c].attempt = call[c].attempt
    ]_vars

\* the upsert of a second attempt carries the token of the second read, the
\* first upsert having been rejected after another process wrote the key
C21_Witness ==
  \E c \in Calls :
    /\ call[c].pc = "upsert" /\ call[c].attempt = 2 /\ call[c].nrejected = 1
    /\ call[c].ntransform = 2 /\ extWrites >= 1
    /\ call[c].opts.hasCas /\ call[c].opts.cas = call[c].doc.cas
    /\ ~call[c].lock /\ call[c].doc.cas = store.cas


\* the directive is Upsert with a value; Noop; anything else
UpsertDirective(opr) == opr.action = UPSERT /\ Truthy(opr.value)
NoopDirective(opr) == opr.action = NOOP
RemoveDirective(opr) == ~NoopDirective(opr) /\ ~UpsertDirective(opr)
\* the step is the getAndLock of call c being answered without error
Locks(c) ==
  /\ call[c].pc = "getAndLock" /\ call[c].lock
  /\ call'[c].ntransform = call[c].ntransform + 1

\* C27: in the locking variant an attempt whose getAndLock found no document
\* and whose transform asks to remove issues no unlock and goes on to the
\* remove of the key (which then ends the call without error).
C27_RemoveOfAbsentKeySkipsUnlock ==
  [][\A c \in Calls :
       (Locks(c) /\ ~call'[c].doc.found /\ RemoveDirective(call'[c].opr)) =>
         call'[c].pc = "remove"
    ]_vars

\* C28: in the locking variant an attempt whose transform answers Upsert
\* with a value goes from the getAndLock straight to the upsert (or the
\* insert) and from there to the end of the attempt: no unlock is issued.
\* An unlock is issued only from an answered getAndLock that found a
\* document, on the Noop path and on the Remove path, and the token it is
\* given is the token of that getAndLock, which is the one locking the
\* document.
C28_UpsertPathNeverUnlocks ==
  [][\A c \in Calls :
       /\ (Locks(c) /\ UpsertDirective(call'[c].opr)) =>
            call'[c].pc = (IF call'[c].doc.found THEN "upsert" ELSE "insert")
       /\ (call[c].pc \in {"upsert", "insert"}) =>
            call'[c].pc \in {call[c].pc, "getAndLock", "get", "done"}
       /\ (call'[c].pc \in {"unlockNoop", "unlockRemove"} /\ call'[c] # call[c]) =>
            /\ Locks(c)
            /\ call'[c].doc = BucketGetAndLock(store).res
            /\ call'[c].doc.found
            /\ call'[c].doc.cas = store'.cas /\ store'.locked
            /\ (call'[c].pc = "unlockNoop") = NoopDirective(call'[c].opr)
            /\ (call'[c].pc = "unlockRemove") = RemoveDirective(call'[c].opr)
       /\ (call[c].pc \in {"unlockNoop", "unlockRemove"} /\ call'[c] # call[c]) =>
            \E withCas \in BOOLEAN :
              store' = BucketUnlock(store, call[c].doc.cas, withCas).s
    ]_vars

\* the upsert of a locking call is in flight on the document it locked, and
\* the call was never at an unlock
C28_Witness ==
  \E c \in Calls :
    /\ call[c].lock /\ call[c].pc = "upsert" /\ call[c].attempt = 1
    /\ call[c].doc.found /\ store.locked /\ store.cas = call[c].doc.cas
    /\ call[c].opts = CasOpts(call[c].doc.cas)

\* call c is between its successful getAndLock and its upsert or unlock
Holding(c) ==
  /\ call[c].lock /\ call[c].doc.found
  /\ call[c].pc \in {"upsert", "unlockNoop", "unlockRemove"}

\* C29: of the calls of the locking variant on a key that holds a document,
\* at most one is between its successful getAndLock and its upsert or
\* unlock, and it is the one whose token locks the document; a getAndLock of
\* another call answered meanwhile fails: no transform is called, nothing is
\* written, and the attempt is over (the next one starts, or the call ends
\* with the error of the store if it was the last).
C29_MutualExclusion ==
  /\ [](/\ Cardinality({c \in Calls : Holding(c)}) <= 1
        /\ \A c \in Calls : Holding(c) => store.locked /\ store.cas = call[c].doc.cas)
  /\ [][\A c, d \in Calls :
          (c # d /\ Holding(d) /\ call[c].pc = "getAndLock" /\ call'[c] # call[c]) =>
             /\ store' = store
             /\ call'[c].ntransform = call[c].ntransform
             /\ call'[c].doc = NoDoc
             /\ IF call[c].attempt < call[c].times
                THEN call'[c].pc = "getAndLock" /\ call'[c].attempt = call[c].attempt + 1
                ELSE call'[c].pc = "done" /\ call'[c].err = ErrTemporary
     ]_vars

\* one call holds the lock while the other, refused once, is at the
\* getAndLock of its second attempt
C29_Witness ==
  \E c, d \in Calls :
    /\ c # d /\ Holding(d) /\ call[d].pc = "upsert"
    /\ call[c].lock /\ call[c].pc = "getAndLock" /\ call[c].attempt = 2
    /\ call[c].ntransform = 0

\* C30: the upsert of an attempt that read an existing document is sent the
\* token of the read together with every option of the call's saveOptions,
\* in the locking and in the non-locking variant.
C30_SaveOptionsReachTheUpsert ==
  \A c \in Calls :
    (call[c].pc = "upsert" /\ call[c].doc.found) =>
      /\ call[c].opts.hasCas /\ call[c].opts.cas = call[c].doc.cas
      /\ call[c].opts.expiry = (call[c].options.saveOptions = "{expiry}")


\* the variables other than cls
others == <<store, initial, config, call, lost, extWrites, get, op, proxy, ropts>>
\* the code of the error is the number n, or spells it
CodeIs(err, n) == err.code = NumCode(n)
CodeSpells(err, n) == err.code.t \in {"number", "string"} /\ err.code.n = n

\* C22: isKeyNotFound(err) answers true exactly when err is neither null nor
\* undefined and its code is the key-not-found code of the store, or its
\* code spells 13, or its message is 'key not found', or its message
\* contains 'key does not exist' or 'key not found'; it answers false for
\* everything else; and the call changes neither the error nor anything else.
C22_IsKeyNotFound ==
  [][cls'.keyNotFound # cls.keyNotFound =>
       /\ cls'.keyNotFound \in {"true", "false"}
       /\ (cls'.keyNotFound = "true") =
            (/\ cls.err.kind \notin {"null", "undefined"}
             /\ \/ CodeIs(cls.err, KeyNotFoundCode)
                \/ CodeSpells(cls.err, 13)
                \/ cls.err.msg = <<"key", "not", "found">>
                \/ Contains(cls.err.msg, <<"key", "does", "not", "exist">>)
                \/ Contains(cls.err.msg, <<"key", "not", "found">>))
       /\ cls'.err = cls.err /\ cls'.tempError = cls.tempError
       /\ UNCHANGED others
    ]_vars

\* an error known only by a code that is the string '13'
C22_Witness ==
  /\ cls.keyNotFound = "true" /\ cls.err.code = StrCode(13)
  /\ ~Contains(cls.err.msg, <<"key", "not", "found">>) /\ cls.err.msg # <<>>

\* C23: isTemporaryError(err) answers true exactly when err is neither null
\* nor undefined and its code is the temporary-failure code of the store,
\* or its code spells 11, or its message contains 'Temporary failure'; it
\* answers false for everything else; and the call changes neither the
\* error nor anything else.
C23_IsTemporaryError ==
  [][cls'.tempError # cls.tempError =>
       /\ cls'.tempError \in {"true", "false"}
       /\ (cls'.tempError = "true") =
            (/\ cls.err.kind \notin {"null", "undefined"}
             /\ \/ CodeIs(cls.err, TemporaryErrorCode)
                \/ CodeSpells(cls.err, 11)
                \/ Contains(cls.err.msg, <<"Temporary", "failure">>))
       /\ cls'.err = cls.err /\ cls'.keyNotFound = cls.keyNotFound
       /\ UNCHANGED others
    ]_vars

\* an error without a code whose message holds 'Temporary failure'
C23_Witness ==
  /\ cls.tempError = "true" /\ cls.err.code = NoCode
  /\ cls.err.msg = <<"Temporary", "failure", "received", "from", "server">>

\* the callback of a get that ended was handed an error
GotError == IsSet(get.cb.err) \/ ~get.cb.errors.null

\* C24: a get called without a callback returns a promise that is rejected
\* exactly when the callback of the same call would be handed an error (the
\* error of a single get or of the whole batch, or the collection of the
\* errors of the keys), with that error, and that is otherwise resolved to
\* the first result: the document of a single get, the found array of a
\* batch get without the misses.  A get called with a callback settles no
\* promise.
C24_PromiseFormOfGet ==
  get.pc = "done" =>
    IF get.promise
    THEN /\ get.cb.called = 1
         /\ (get.settled.state = "rejected") = GotError
         /\ (get.settled.state = "resolved") = ~GotError
         /\ GotError => /\ get.settled.err = get.cb.err
                        /\ get.settled.errors = (IF get.cb.errors.null THEN <<>>
                                                 ELSE get.cb.errors.list)
                        /\ get.settled.results = <<>> /\ get.settled.res = NoDoc
         /\ ~GotError => /\ get.settled.res = get.cb.res
                         /\ get.settled.results = get.cb.results
         /\ get.settled.misses = <<>>
    ELSE get.settled = Unsettled

\* a batch get without callback of a key that is found and a key that is
\* not: the callback is handed both, the promise resolves to the found one
C24_Witness ==
  /\ get.pc = "done" /\ get.promise /\ ~get.single
  /\ get.cb.nargs = 3 /\ Len(get.cb.misses) = 1 /\ Len(get.cb.results) = 1
  /\ get.settled.state = "resolved" /\ get.settled.results = get.cb.results

\* C25: Driver.create exposes, under its own name, every own public function
\* of the bucket's prototype that the Driver does not define; and a call of
\* such a function calls the bucket directly when the name of the function
\* is on the list of synchronous functions and through the promise wrapper
\* when it is not.
C25_PassThroughSurface ==
  /\ proxy.created =>
       \A prop \in ProtoProperties :
         (\E i \in 1..Len(proxy.fnNames) : proxy.fnNames[i] = prop.name) =
           (/\ \E i \in 1..Len(proxy.proto) : proxy.proto[i] = prop
            /\ prop.own /\ prop.fn /\ prop.name \notin Underscored
            /\ prop.name \notin DriverMethods)
  /\ proxy.how # "none" =>
       (proxy.how = "direct") = (proxy.fn \in syncFunctions)

\* the value the claim gives to option f: the call's, else the one given to
\* Driver.create, else the default
Hardcoded ==
  [atomicRetryTimes |-> 5, atomicRetryInterval |-> 0, retryTemporaryErrors |-> "false",
   tempRetryTimes |-> 5, tempRetryInterval |-> 50]
Layered(f) ==
  IF ~IsUnset(f, ropts.given[f]) THEN ropts.given[f]
  ELSE IF ~IsUnset(f, ropts.ctor[f]) THEN ropts.ctor[f]
  ELSE Hardcoded[f]

\* C26: the retry options a call hands to async.retry are layered: each of
\* atomicRetryTimes, atomicRetryInterval, retryTemporaryErrors,
\* tempRetryTimes and tempRetryInterval is the option of the call when the
\* call gives it, else the option given to Driver.create, else the default
\* (5, 0, false, 5, 50).  atomic retries atomicRetryTimes times at
\* atomicRetryInterval; insert, upsert and getAndLock retry tempRetryTimes
\* times when retryTemporaryErrors is set (once otherwise) at
\* tempRetryInterval.
C26_LayeredRetryOptions ==
  /\ ropts.fn = "atomic" =>
       /\ ropts.times = Layered("atomicRetryTimes")
       /\ ropts.interval = Layered("atomicRetryInterval")
  /\ ropts.fn \in {"write", "getAndLock"} =>
       /\ ropts.times = (IF Layered("retryTemporaryErrors") = "true"
                         THEN Layered("tempRetryTimes") ELSE 1)
       /\ ropts.interval = Layered("tempRetryInterval")

\* an upsert whose options switch the retry on while the driver was created
\* with it off, and which takes the interval and the times from the driver
C26_Witness ==
  /\ ropts.fn = "write"
  /\ ropts.given.retryTemporaryErrors = "true" /\ ropts.ctor.retryTemporaryErrors = "false"
  /\ ropts.given.tempRetryInterval = -1 /\ ropts.ctor.tempRetryInterval = 20
  /\ ropts.given.tempRetryTimes = 0 /\ ropts.ctor.tempRetryTimes = 3
  /\ ropts.interval = 20 /\ ropts.times = 3


\* C31: once an atomic call of the locking variant has completed, with
\* success or with its last error, the document is not locked by it (the
\* call is the only one that locks the key).  The calls looked at are those
\* whose transform appends, which never issue an unlock: their lock is
\* released by the upsert alone.
C31_LockReleasedAtCompletion ==
  \A c \in Calls :
    (call[c].pc = "done" /\ call[c].lock /\ call[c].tr = "append") => ~store.locked

\* the step is the remove of call c taking effect
Removes(c) ==
  /\ call[c].pc = "remove" /\ call'[c].neffect = call[c].neffect + 1
  /\ store.exists /\ ~store'.exists

\* C32: in the locking variant the remove of an attempt deletes the document
\* the transform of that attempt saw: when another process has rewritten the
\* document after the unlock, the remove is rejected, whether the answer of
\* the unlock held a token or not.
C32_RemoveDeletesWhatWasRead ==
  [][\A c \in Calls :
       (call[c].lock /\ Removes(c)) => Stored(store) = call[c].doc.value
    ]_vars

\* the step completes call c
Completes(c) == call[c].pc # "done" /\ call'[c].pc = "done"

ReadAnswered(c) ==
  /\ call[c].pc \in {"get", "getAndLock"}
  /\ call'[c] # call[c] /\ call'[c].nfault = call[c].nfault
  /\ (ReadReply(c).err = NoErr \/ ReadReply(c).err = ErrKeyNotFound)

\* C34: the transform of an atomic call is called once in every attempt
\* whose read was answered without error, in no attempt whose read failed,
\* never after the call completed, and so at most atomicRetryTimes times,
\* also when the facade repeats store calls that failed temporarily within
\* an attempt.
C34_TransformOncePerAttempt ==
  [][\A c \in Calls :
       /\ call'[c].ntransform <= call'[c].attempt
       /\ call'[c].ntransform <= call'[c].times
       /\ (call'[c].ntransform # call[c].ntransform) = ReadAnswered(c)
       /\ ReadAnswered(c) =>
            /\ call'[c].ntransform = call[c].ntransform + 1
            /\ \/ call'[c].pc \notin {"get", "getAndLock"}
               \/ call'[c].attempt = call[c].attempt + 1
       /\ call[c].pc = "done" => call'[c] = call[c]
    ]_vars

\* the facade repeats the upsert of a second attempt on a driver that
\* retries temporary errors: the transform was called twice
C34_Witness ==
  /\ config.retryTemporaryErrors = "true"
  /\ \E c \in Calls :
       /\ call[c].pc = "upsert" /\ call[c].tries = 1
       /\ call[c].attempt = 2 /\ call[c].ntransform = 2

\* C36: two concurrent calls of the locking variant (atomicLock: true in the
\* options of each) that append to a document that exists, on a driver with
\* the default atomicRetryTimes, both end without error.
C36_BothLockingUpsertsSucceed ==
  (/\ initial.exists
   /\ \A c \in Calls : /\ call[c].pc # "idle" /\ call[c].tr = "append" /\ call[c].lock
                       /\ call[c].times = DefaultAtomicRetryTimes) =>
    \A c \in Calls : call[c].pc = "done" => call[c].err = NoErr


\* C35: on a store that answers every operation, every atomic call that was
\* made completes: its callback is called, once, after at most
\* atomicRetryTimes attempts.
C35_EveryCallCompletes ==
  \A c \in Calls :
    [](call[c].pc # "idle" =>
         <>(/\ call[c].pc = "done" /\ call[c].called = 1
            /\ call[c].attempt <= call[c].times))


\* the get in g asks for nothing: an absent key, or an empty array of keys
AsksNothing(g) == IF g.single THEN g.keys = <<"">> ELSE g.keys = <<>>

\* C38: a get of an absent key or of an empty array of keys calls neither
\* bucket.get nor bucket.getMulti; its callback is not called within the
\* call but on a later tick, and then without arguments: no error, no
\* result, no misses.
C38_GetOfNothing ==
  [][/\ (get.pc = "idle" /\ get'.pc # "idle" /\ AsksNothing(get')) =>
          /\ get'.pc = "nextTick"
          /\ get'.cb = NoCallback /\ get'.getRes = get.getRes
     /\ (get.pc # "idle" /\ get' # get /\ AsksNothing(get)) =>
          /\ get.pc = "nextTick" /\ get'.pc = "done"
          /\ get'.getRes = get.getRes
          /\ get'.cb = [NoCallback EXCEPT !.called = 1]
    ]_vars

\* a batch get of no keys has ended
C38_Witness ==
  /\ get.pc = "done" /\ ~get.single /\ get.keys = <<>>
  /\ get.cb.called = 1 /\ get.cb.nargs = 0


\* C37: atomic leaves the options object of the caller as it was given, so
\* two atomic calls made one after the other with the same object run the
\* same variant with the same retry options.
C37_SameOptionsSameVariant ==
  /\ ropts.fn = "atomic" => ropts.options = ropts.given
  /\ (ropts.fn = "atomic" /\ ropts.prev.fn = "atomic") =>
       /\ ropts.lock = ropts.prev.lock
       /\ ropts.times = ropts.prev.times
       /\ ropts.interval = ropts.prev.interval


\* C39: in the earlier implementation, concurrent atomic calls that append
\* to a key that held no document and that all end without error leave a
\* document with the marker of each of them: the write of a call that read
\* the key as absent does not take effect once another call has created the
\* document.
C39_LegacyCreateKeepsBoth ==
  (/\ ~initial.exists
   /\ \A c \in Calls : call[c].legacy /\ call[c].tr = "append" /\ Succeeded(c)) =>
    \A c \in Calls : Count(Stored(store).keys, c) = 1

=============================================================================
